---- MODULE Spec2Model ----
(***************************************************************************)
(* Error classification and response normalisation of the task-manager     *)
(* backend: the error taxonomy, the domain error variants, the priority    *)
(* ordered processors of EnterpriseErrorHandler, ErrorMiddleware, the      *)
(* exception handlers registered on the application, the validation error  *)
(* collector and the auth routes whose failures reach the dispatchers;     *)
(* and the persistence side: BaseRepository over one table, the BaseService *)
(* transaction helpers and AuthService.create_user called concurrently.    *)
(*                                                                         *)
(* Conventions.  Python None is the string None for optional strings and   *)
(* the empty tuple for optional containers: <<>> is None and <<v>> is the  *)
(* value v.  A dict is a set of <<key, value>> pairs; keyword arguments    *)
(* are a record.  A str is a string: an f-string is built with \o, and     *)
(* str.lower() and the substring test are computed character by character. *)
(* uuid.uuid4() and datetime.now() draw from the counters uuidCount and    *)
(* clock.                                                                  *)
(***************************************************************************)
EXTENDS Integers, Sequences, FiniteSets, TLC

VARIABLES
    handler,      \* the EnterpriseErrorHandler / ErrorMiddleware object: processors, debug, enable_cors
    request,      \* the inbound request: headers, path, method
    pc,           \* position of the request-handling unit of work
    exc,          \* the exception in flight (NoExc when none)
    ids,          \* request_id / correlation_id the dispatcher works with
    context,      \* ErrorContext built by handle_error
    result,       \* ErrorProcessingResult of the chosen processor
    response,     \* the JSONResponse returned
    events,       \* log and alert calls made while handling, in order
    via,          \* which handler took the exception
    origin,       \* where the exception came from
    collector,    \* ValidationErrorCollector.errors
    added,        \* the field failures handed to the collector, in call order
    data,         \* the user data handed to validate_user_data_bulk
    uuidCount,    \* number of uuid4() values minted so far
    clock,        \* number of datetime.now() readings so far
    rendered,     \* the to_schema() calls made on the exception in flight, in call order
    inner,        \* the exception business logic raised inside a BaseService helper
    inflight,     \* the locals of the other handle_error invocation, suspended meanwhile
    db,           \* the users table as committed: rows and the next primary key
    session,      \* the last BaseService transaction: what it was given, its Session calls
    callers,      \* the create_user calls under way: position, arguments, outcome
    returned      \* what the last repository or service call handed back

\* the variables of the repository and service calls
storeVars == <<db, session, callers, returned>>

\* the variables of the request being served and of its dispatcher
dispatchVars == <<handler, request, pc, exc, ids, context, result, response, via, origin,
                  collector, added, data, rendered, inner, inflight>>

vars == <<handler, request, pc, exc, ids, context, result, response, events,
          via, origin, collector, added, data, uuidCount, clock, rendered, inner,
          inflight, db, session, callers, returned>>

None == "None"

\* ---------------------------------------------------------------- bounds

MaxErrors == 3
MaxCollected == 3
MaxRenders == 2
MaxOps == 3
MaxItems == 2
MaxCalls == 2

\* ------------------------------------------------------ constants.py

LOW == "low"
MEDIUM == "medium"
HIGH == "high"
CRITICAL == "critical"

\* a faulty value object: every code is bound to status 500
ErrorCodeDataAlways500(code, status, message, severity) ==
    [code |-> code, status_code |-> 500, message |-> message, severity |-> severity]

ErrorCodeData(code, status, message, severity) ==
    [code |-> code, status_code |-> status, message |-> message, severity |-> severity]

\* ------------------------------------------------------- messages.py

ErrorMessages ==
    [INVALID_CREDENTIALS |-> "Invalid email or password",
     USER_NOT_FOUND |-> "User account not found",
     ACCOUNT_INACTIVE |-> "Your account has been deactivated",
     ACCESS_DENIED |-> "You don't have permission to access this resource",
     DATABASE_ERROR |-> "A system error occurred while processing your request",
     EXTERNAL_SERVICE_ERROR |-> "External service is temporarily unavailable",
     INTERNAL_ERROR |-> "An unexpected error occurred"]

SuggestionMessages ==
    [TRY_AGAIN |-> "Please try again",
     CONTACT_SUPPORT |-> "Contact support if the problem persists",
     CHECK_PERMISSIONS |-> "Check that you have the necessary permissions",
     CONTACT_ADMIN |-> "Contact your administrator for account assistance"]

ValidationMessages ==
    [EMAIL_REQUIRED |-> "Email is required",
     EMAIL_INVALID_FORMAT |-> "Please provide a valid email address",
     USERNAME_REQUIRED |-> "Username is required",
     USERNAME_INVALID_FORMAT |-> "Username must be 3-50 characters using letters, numbers, and underscores only",
     PASSWORD_REQUIRED |-> "Password is required",
     PASSWORD_REQUIREMENTS |-> "Password must contain at least 8 characters with uppercase, lowercase, number, and special character"]

\* ValidationMessages.get_min_length_message
get_min_length_message(field, min_length) ==
    "'" \o field \o "' must be at least " \o ToString(min_length) \o " characters"

\* ValidationMessages.get_max_length_message
get_max_length_message(field, max_length) ==
    "'" \o field \o "' cannot exceed " \o ToString(max_length) \o " characters"

\* ----------------------------------------------------- exceptions.py

ErrorCode ==
    [INVALID_CREDENTIALS |-> ErrorCodeData("AUTH001", 401, ErrorMessages.INVALID_CREDENTIALS, MEDIUM),
     USER_NOT_FOUND |-> ErrorCodeData("AUTH002", 404, ErrorMessages.USER_NOT_FOUND, LOW),
     USER_INACTIVE |-> ErrorCodeData("AUTH003", 403, ErrorMessages.ACCOUNT_INACTIVE, MEDIUM),
     ACCESS_DENIED |-> ErrorCodeData("AUTH004", 403, ErrorMessages.ACCESS_DENIED, MEDIUM),
     TOKEN_EXPIRED |-> ErrorCodeData("AUTH005", 401, "Token expired", LOW),
     TOKEN_INVALID |-> ErrorCodeData("AUTH006", 401, "Invalid token", MEDIUM),
     VALIDATION_ERROR |-> ErrorCodeData("VAL001", 422, "Validation error", LOW),
     REQUIRED_FIELD |-> ErrorCodeData("VAL002", 400, "Required field", LOW),
     INVALID_FORMAT |-> ErrorCodeData("VAL003", 400, "Invalid format", LOW),
     OUT_OF_RANGE |-> ErrorCodeData("VAL004", 400, "Value out of range", LOW),
     RESOURCE_NOT_FOUND |-> ErrorCodeData("RES001", 404, "Resource not found", LOW),
     DUPLICATE_RESOURCE |-> ErrorCodeData("RES002", 409, "Resource already exists", LOW),
     RESOURCE_LOCKED |-> ErrorCodeData("RES003", 409, "Resource is locked", MEDIUM),
     BUSINESS_RULE_VIOLATION |-> ErrorCodeData("BIZ001", 400, "Business rule violation", MEDIUM),
     INSUFFICIENT_PERMISSIONS |-> ErrorCodeData("BIZ002", 403, "Insufficient permissions", MEDIUM),
     OPERATION_NOT_ALLOWED |-> ErrorCodeData("BIZ003", 403, "Operation not allowed", MEDIUM),
     QUOTA_EXCEEDED |-> ErrorCodeData("BIZ004", 429, "Quota exceeded", HIGH),
     DATABASE_ERROR |-> ErrorCodeData("SYS001", 500, ErrorMessages.DATABASE_ERROR, CRITICAL),
     EXTERNAL_SERVICE_ERROR |-> ErrorCodeData("SYS002", 502, ErrorMessages.EXTERNAL_SERVICE_ERROR, HIGH),
     INTERNAL_ERROR |-> ErrorCodeData("SYS003", 500, ErrorMessages.INTERNAL_ERROR, CRITICAL),
     SERVICE_UNAVAILABLE |-> ErrorCodeData("SYS004", 503, "Service unavailable", HIGH),
     TIMEOUT_ERROR |-> ErrorCodeData("SYS005", 504, "Timeout", HIGH)]

\* ------------------------------------------------------ str helpers

UpperChars == "ABCDEFGHIJKLMNOPQRSTUVWXYZ"
LowerChars == "abcdefghijklmnopqrstuvwxyz"

\* str.lower() of one character
LowerChar(c) ==
    IF \E i \in 1..Len(UpperChars) : SubSeq(UpperChars, i, i) = c
    THEN LET i == CHOOSE j \in 1..Len(UpperChars) : SubSeq(UpperChars, j, j) = c
         IN SubSeq(LowerChars, i, i)
    ELSE c

RECURSIVE Lower(_)
\* str.lower(): every character lowered, the halves of the string one after the other
Lower(s) ==
    IF Len(s) <= 1
    THEN LowerChar(s)
    ELSE Lower(SubSeq(s, 1, Len(s) \div 2)) \o Lower(SubSeq(s, Len(s) \div 2 + 1, Len(s)))

\* the Python test `w in s` on two str
Contains(s, w) == \E i \in 1..(Len(s) - Len(w) + 1) : SubSeq(s, i, i + Len(w) - 1) = w

RECURSIVE Join(_, _)
\* sep.join(parts)
Join(sep, parts) ==
    IF Len(parts) = 0 THEN ""
    ELSE IF Len(parts) = 1 THEN parts[1]
    ELSE parts[1] \o sep \o Join(sep, Tail(parts))

RECURSIVE Filter(_, _)
\* [x for x in xs if x not in drop]
Filter(xs, drop) ==
    IF Len(xs) = 0 THEN <<>>
    ELSE IF xs[1] \in drop THEN Filter(Tail(xs), drop)
    ELSE <<xs[1]>> \o Filter(Tail(xs), drop)

RECURSIVE TitleFrom(_, _)
\* str.title() from a position on: a letter that follows a non-letter is upper-cased,
\* a letter that follows a letter is lower-cased
TitleFrom(s, prevLetter) ==
    IF Len(s) = 0 THEN ""
    ELSE LET c == SubSeq(s, 1, 1)
             upper == IF \E i \in 1..Len(LowerChars) : SubSeq(LowerChars, i, i) = c
                      THEN LET i == CHOOSE j \in 1..Len(LowerChars) : SubSeq(LowerChars, j, j) = c
                           IN SubSeq(UpperChars, i, i)
                      ELSE c
         IN (IF prevLetter THEN LowerChar(c) ELSE upper)
            \o TitleFrom(SubSeq(s, 2, Len(s)), Contains(UpperChars \o LowerChars, c))

\* str.title()
Title(s) == TitleFrom(s, FALSE)

\* str(uuid.uuid4()): the n-th value minted
Uuid(n) == "uuid-" \o ToString(n)

\* kwargs.get(key, default)
Kw(kwargs, key, default) == IF key \in DOMAIN kwargs THEN kwargs[key] ELSE default

\* a `or` b on optional str
OrElse(a, b) == IF a = None \/ a = "" THEN b ELSE a

\* ------------------------------------------------- schemas/error.py

ValidationErrorDetail(field, message, invalid_value, constraint, expected_type, allowed_values) ==
    [field |-> field, message |-> message, invalid_value |-> invalid_value,
     constraint |-> constraint, expected_type |-> expected_type,
     allowed_values |-> allowed_values]

SchemaDefaults ==
    [kind |-> "ErrorResponseSchema", error |-> None, message |-> None, status_code |-> 0,
     timestamp |-> 0, request_id |-> None, path |-> None, method |-> None, field |-> None,
     resource_id |-> None, resource_type |-> None, details |-> <<>>, suggestions |-> <<>>,
     trace_id |-> None, correlation_id |-> None, validation_errors |-> <<>>,
     rule_name |-> None, rule_description |-> None, context_data |-> <<>>]

\* the keyword arguments f laid over the fields' defaults
WithDefaults(f, kind) ==
    [k \in DOMAIN SchemaDefaults |->
        IF k = "kind" THEN kind ELSE IF k \in DOMAIN f THEN f[k] ELSE SchemaDefaults[k]]

\* ErrorResponseSchema(**f); its validators are ErrorResponseSchemaValid
ErrorResponseSchema(f) == WithDefaults(f, "ErrorResponseSchema")

\* ValidationErrorResponseSchema(**f)
ValidationErrorResponseSchema(f) == WithDefaults(f, "ValidationErrorResponseSchema")

\* BusinessErrorResponseSchema(**f)
BusinessErrorResponseSchema(f) == WithDefaults(f, "BusinessErrorResponseSchema")

\* validate_status_code
validate_status_code(v) == 200 <= v /\ v <= 599

\* validate_suggestions: None passes, a list of more than 10 raises
validate_suggestions(v) == v = <<>> \/ Len(v[1]) <= 10

\* validate_errors_not_empty
validate_errors_not_empty(v) == Len(v) # 0

\* construction of the schema succeeds (no validator raises)
SchemaValid(s) ==
    /\ validate_status_code(s.status_code)
    /\ validate_suggestions(s.suggestions)
    /\ s.kind = "ValidationErrorResponseSchema" => validate_errors_not_empty(s.validation_errors)

BaseSchemaFields ==
    {"error", "message", "status_code", "timestamp", "request_id", "path", "method", "field",
     "resource_id", "resource_type", "details", "suggestions", "trace_id", "correlation_id"}

\* ErrorResponseSchema.model_dump(): the declared fields as keyword arguments
ModelDump(s) == [k \in BaseSchemaFields |-> s[k]]

\* {**a, **b}
Merge(a, b) == [k \in DOMAIN a \cup DOMAIN b |-> IF k \in DOMAIN b THEN b[k] ELSE a[k]]

\* ----------------------------------------------- exception objects

BlankExc ==
    [cls |-> None, error_code |-> None, message |-> None, request_id |-> None, path |-> None,
     method |-> None, correlation_id |-> None, trace_id |-> None, timestamp |-> 0,
     field |-> None, resource_id |-> None, resource_type |-> None, details |-> {},
     suggestions |-> <<>>, validation_errors |-> <<>>, rule_name |-> None,
     rule_description |-> None, context_data |-> {}, status_code |-> 0, detail |-> None,
     text |-> "", errors |-> <<>>]

NoExc == BlankExc

DomainClasses ==
    {"ValidationError", "ResourceNotFoundError", "DuplicateResourceError", "BusinessRuleError",
     "AuthenticationError", "AuthorizationError", "DatabaseError", "BaseError"}

\* isinstance(e, classes): the classes an instance of e.cls is an instance of
IsInstance(e, classes) ==
    ({e.cls, "Exception"} \cup
     (IF e.cls \in DomainClasses THEN {"BaseError"}
      ELSE IF e.cls \in {"utils.InvalidCredentialsError", "utils.UserAlreadyExistsError",
                         "utils.UserInactiveError", "utils.DatabaseError"} THEN {"BaseCustomException"}
      ELSE IF e.cls = "fastapi.HTTPException" THEN {"HTTPException"}
      ELSE IF e.cls \in {"IntegrityError", "OperationalError"} THEN {"DBAPIError", "StatementError", "SQLAlchemyError"}
      ELSE {})) \cap classes # {}

\* ----------------------------------------------------- exceptions.py

\* BaseError.__init__(error_code, message, **kwargs), the u-th uuid and t-th clock reading
\* being the last ones drawn before the call
BaseError(cls, error_code, message, kwargs, u, t) ==
    [BlankExc EXCEPT
        !.cls = cls,
        !.error_code = error_code,
        !.message = OrElse(message, ErrorCode[error_code].message),
        !.request_id = Kw(kwargs, "request_id", Uuid(u + 1)),
        !.path = Kw(kwargs, "path", None),
        !.method = Kw(kwargs, "method", None),
        !.correlation_id = Kw(kwargs, "correlation_id", None),
        !.trace_id = Uuid(u + 2),
        !.timestamp = t + 1,
        !.field = Kw(kwargs, "field", None),
        !.resource_id = Kw(kwargs, "resource_id", None),
        !.resource_type = Kw(kwargs, "resource_type", None),
        !.details = Kw(kwargs, "details", {}),
        !.suggestions = Kw(kwargs, "suggestions", <<>>),
        !.text = "[" \o ErrorCode[error_code].code \o "] " \o OrElse(message, ErrorCode[error_code].message)]

\* a faulty rendering: the timestamp is read when to_schema is called
ToSchemaReadsClock(e) ==
    [SchemaDefaults EXCEPT
        !.error = ErrorCode[e.error_code].code,
        !.message = e.message,
        !.status_code = ErrorCode[e.error_code].status_code,
        !.timestamp = clock + Len(rendered) + 1,
        !.request_id = e.request_id,
        !.path = e.path,
        !.method = e.method,
        !.field = e.field,
        !.resource_id = e.resource_id,
        !.resource_type = e.resource_type,
        !.details = IF e.details # {} THEN <<e.details>> ELSE <<>>,
        !.suggestions = IF e.suggestions # <<>> THEN <<e.suggestions>> ELSE <<>>,
        !.trace_id = e.trace_id,
        !.correlation_id = e.correlation_id]

\* BaseError.to_schema
BaseToSchema(e) ==
    ErrorResponseSchema(
        [error |-> ErrorCode[e.error_code].code,
         message |-> e.message,
         status_code |-> ErrorCode[e.error_code].status_code,
         timestamp |-> e.timestamp,
         request_id |-> e.request_id,
         path |-> e.path,
         method |-> e.method,
         field |-> e.field,
         resource_id |-> e.resource_id,
         resource_type |-> e.resource_type,
         details |-> IF e.details # {} THEN <<e.details>> ELSE <<>>,
         suggestions |-> IF e.suggestions # <<>> THEN <<e.suggestions>> ELSE <<>>,
         trace_id |-> e.trace_id,
         correlation_id |-> e.correlation_id])

\* ValidationError.__init__
ValidationError(field, message, invalid_value, constraint, expected_type, allowed_values, validation_errors, kwargs, u, t) ==
    LET errs == IF validation_errors # <<>> THEN validation_errors
                ELSE <<ValidationErrorDetail(field, message, invalid_value, constraint,
                                             expected_type, allowed_values)>>
        msg  == IF validation_errors # <<>>
                THEN OrElse(message, "Found " \o ToString(Len(validation_errors)) \o " validation errors")
                ELSE message
    IN [BaseError("ValidationError", "VALIDATION_ERROR", msg, Merge(kwargs, [field |-> field]), u, t)
            EXCEPT !.validation_errors = errs]

\* ValidationError.from_multiple
from_multiple(validation_errors, kwargs, u, t) ==
    ValidationError(None, None, None, None, None, <<>>, validation_errors, kwargs, u, t)

\* ValidationError.to_schema
ValidationToSchema(e) ==
    ValidationErrorResponseSchema(
        Merge(ModelDump(BaseToSchema(e)), [validation_errors |-> e.validation_errors]))

\* ResourceNotFoundError.__init__
ResourceNotFoundError(resource_type, resource_id, kwargs, u, t) ==
    BaseError("ResourceNotFoundError", "RESOURCE_NOT_FOUND", resource_type \o " not found",
              Merge(kwargs, [resource_type |-> resource_type, resource_id |-> resource_id,
                             suggestions |-> <<"Verify that the " \o Lower(resource_type) \o " ID is correct">>]),
              u, t)

\* DuplicateResourceError.__init__
DuplicateResourceError(resource_type, field, value, kwargs, u, t) ==
    BaseError("DuplicateResourceError", "DUPLICATE_RESOURCE",
              "A " \o resource_type \o " with this " \o field \o " already exists",
              Merge(kwargs, [resource_type |-> resource_type, field |-> field,
                             suggestions |-> <<"Use a different " \o field>>,
                             details |-> {<<"field", field>>, <<"value", value>>}]),
              u, t)

\* BusinessRuleError.__init__
BusinessRuleError(rule_name, message, rule_description, context_data, suggestions, kwargs, u, t) ==
    [BaseError("BusinessRuleError", "BUSINESS_RULE_VIOLATION", message,
               Merge(kwargs, [details |-> {<<"rule", rule_name>>} \cup
                                          {<<"context." \o kv[1], kv[2]>> : kv \in context_data},
                              suggestions |-> suggestions]),
               u, t)
        EXCEPT !.rule_name = rule_name,
               !.rule_description = rule_description,
               !.context_data = context_data]

\* BusinessRuleError.to_schema
BusinessToSchema(e) ==
    BusinessErrorResponseSchema(
        Merge(ModelDump(BaseToSchema(e)),
              [rule_name |-> e.rule_name, rule_description |-> e.rule_description,
               context_data |-> <<e.context_data>>]))

\* AuthenticationError.__init__
AuthenticationError(message, field, kwargs, u, t) ==
    BaseError("AuthenticationError", "INVALID_CREDENTIALS", message,
              Merge(kwargs, [field |-> field]), u, t)

\* AuthorizationError.__init__
AuthorizationError(message, resource_type, suggestions, kwargs, u, t) ==
    BaseError("AuthorizationError", "ACCESS_DENIED", message,
              Merge(kwargs, [resource_type |-> resource_type,
                             suggestions |-> IF suggestions # <<>> THEN suggestions
                                             ELSE <<SuggestionMessages.CHECK_PERMISSIONS,
                                                    SuggestionMessages.CONTACT_ADMIN>>]),
              u, t)

\* DatabaseError.__init__ (app.core.exceptions)
DatabaseError(operation, details, kwargs, u, t) ==
    BaseError("DatabaseError", "DATABASE_ERROR", ErrorMessages.DATABASE_ERROR,
              Merge(kwargs, [details |-> {<<"operation", operation>>} \cup details,
                             suggestions |-> <<SuggestionMessages.TRY_AGAIN,
                                               SuggestionMessages.CONTACT_SUPPORT>>]),
              u, t)

\* e.to_schema(), dispatched on the class of e
ToSchema(e) ==
    IF e.cls = "ValidationError" THEN ValidationToSchema(e)
    ELSE IF e.cls = "BusinessRuleError" THEN BusinessToSchema(e)
    ELSE BaseToSchema(e)

\* e.to_schema() raises: a validator of the base schema or of the subclass schema rejects
ToSchemaRaises(e) == ~SchemaValid(BaseToSchema(e)) \/ ~SchemaValid(ToSchema(e))

\* ------------------------------------------------ error_processor.py

INFO == "info"
WARNING == "warning"
ERROR == "error"

\* ErrorContext.from_request
from_request(req, request_id, correlation_id, t) ==
    [request_id |-> request_id, correlation_id |-> correlation_id, path |-> req.path,
     method |-> req.method, timestamp |-> t + 1]

\* ErrorProcessor.priority of each processor class
priority(p) ==
    CASE p = "CustomErrorProcessor" -> 0
      [] p = "ValidationErrorProcessor" -> 1
      [] p = "HttpErrorProcessor" -> 2
      [] p = "DatabaseErrorProcessor" -> 3
      [] p = "FallbackErrorProcessor" -> 999

\* ErrorProcessor.can_process of each processor class
can_process(p, e) ==
    CASE p = "CustomErrorProcessor" -> IsInstance(e, {"BaseError"})
      [] p = "ValidationErrorProcessor" -> IsInstance(e, {"RequestValidationError"})
      [] p = "HttpErrorProcessor" -> IsInstance(e, {"HTTPException"})
      [] p = "DatabaseErrorProcessor" -> IsInstance(e, {"IntegrityError", "SQLAlchemyError"})
      [] p = "FallbackErrorProcessor" -> TRUE

\* ValidationErrorProcessor._extract_field_name
_extract_field_name(location) ==
    IF location = <<>> THEN "root"
    ELSE LET clean_path == Filter(location, {"body", "__root__"})
         IN IF clean_path # <<>> THEN Join(".", clean_path) ELSE "root"

\* ValidationErrorProcessor._humanize_message
_humanize_message(error, field) ==
    LET error_type == error.type
        error_msg  == error.msg
    IN CASE error_type = "value_error.email" -> "Please provide a valid email address"
         [] error_type = "string_type" -> Title(field) \o " must be text"
         [] error_type = "int_type" -> Title(field) \o " must be a whole number"
         [] error_type = "float_type" -> Title(field) \o " must be a number"
         [] error_type = "bool_type" -> Title(field) \o " must be true or false"
         [] error_type = "missing" -> Title(field) \o " is required"
         [] error_type = "string_too_short" -> Title(field) \o " is too short"
         [] error_type = "string_too_long" -> Title(field) \o " is too long"
         [] OTHER ->
            IF Contains(Lower(error_type), "email") \/ Contains(Lower(error_msg), "email")
            THEN "Please provide a valid email address"
            ELSE IF Contains(error_msg, "value is not a valid email")
            THEN "Please provide a valid email address"
            ELSE IF Contains(error_msg, "ensure this value has at least")
            THEN Title(field) \o " is too short"
            ELSE IF Contains(error_msg, "ensure this value has at most")
            THEN Title(field) \o " is too long"
            ELSE IF Contains(error_msg, "field required")
            THEN Title(field) \o " is required"
            ELSE IF Contains(error_msg, "not a valid")
            THEN Title(field) \o " format is invalid"
            ELSE Title(field) \o " has an invalid value"

\* ValidationErrorProcessor._map_expected_type
_map_expected_type(error_type) ==
    CASE error_type = "string_type" -> "text"
      [] error_type = "int_type" -> "number"
      [] error_type = "float_type" -> "decimal"
      [] error_type = "bool_type" -> "boolean"
      [] error_type = "value_error.email" -> "email"
      [] error_type = "list_type" -> "list"
      [] error_type = "dict_type" -> "object"
      [] OTHER -> "valid value"

RECURSIVE _extract_validation_errors(_)
\* ValidationErrorProcessor._extract_validation_errors, on exc.errors()
_extract_validation_errors(errors) ==
    IF errors = <<>> THEN <<>>
    ELSE LET error == errors[1]
             field == _extract_field_name(error.loc)
         IN <<ValidationErrorDetail(field, _humanize_message(error, field), error.input,
                                    error.type, _map_expected_type(error.type), <<>>)>>
            \o _extract_validation_errors(Tail(errors))

\* the suggestions set ValidationErrorProcessor._generate_suggestions builds
SuggestionSet(validation_errors) ==
    {"Check API documentation for field requirements"} \cup
    UNION {LET field_lower == Lower(validation_errors[i].field)
           IN IF Contains(field_lower, "email")
              THEN {"Ensure email includes @ symbol and valid domain"}
              ELSE IF Contains(field_lower, "password")
              THEN {"Password must meet security requirements"}
              ELSE IF Contains(field_lower, "phone")
              THEN {"Use correct phone number format"}
              ELSE {} : i \in 1..Len(validation_errors)}

\* ValidationErrorProcessor._generate_suggestions: list(suggestions)[:3], where the
\* iteration order of a set of str is not fixed; every list it can return
_generate_suggestions(validation_errors) ==
    LET S == SuggestionSet(validation_errors)
        n == IF Cardinality(S) < 3 THEN Cardinality(S) ELSE 3
    IN {q \in [1..n -> S] : \A i, j \in 1..n : i # j => q[i] # q[j]}

\* what a processor hands back: the result, whether building the schema raised, the
\* exception as the processor left it, and the uuid4() calls it made
Outcome(schema, severity, should_alert, metrics_tags, e, uuids) ==
    [raised |-> ~SchemaValid(schema), schema |-> schema, severity |-> severity,
     should_alert |-> should_alert, metrics_tags |-> metrics_tags, exc |-> e, uuids |-> uuids]

\* ValidationErrorProcessor.process: one outcome per order of the suggestions
ValidationProcess(e, ctx, u) ==
    LET validation_errors == _extract_validation_errors(e.errors)
    IN {Outcome(
            ValidationErrorResponseSchema(
                [error |-> ErrorCode.VALIDATION_ERROR.code,
                 message |-> "Invalid input data provided",
                 status_code |-> ErrorCode.VALIDATION_ERROR.status_code,
                 timestamp |-> ctx.timestamp,
                 request_id |-> ctx.request_id,
                 path |-> ctx.path,
                 method |-> ctx.method,
                 correlation_id |-> ctx.correlation_id,
                 trace_id |-> Uuid(u + 1),
                 validation_errors |-> validation_errors,
                 suggestions |-> <<sug>>]),
            INFO, FALSE,
            {<<"error_type", "validation">>, <<"field_count", ToString(Len(validation_errors))>>},
            e, 1) : sug \in _generate_suggestions(validation_errors)}

\* HttpErrorProcessor._map_status_to_error_code
_map_status_to_error_code(status_code) ==
    CASE status_code = 401 -> "INVALID_CREDENTIALS"
      [] status_code = 403 -> "ACCESS_DENIED"
      [] status_code = 404 -> "RESOURCE_NOT_FOUND"
      [] status_code = 409 -> "DUPLICATE_RESOURCE"
      [] status_code = 429 -> "QUOTA_EXCEEDED"
      [] status_code = 500 -> "INTERNAL_ERROR"
      [] status_code = 502 -> "EXTERNAL_SERVICE_ERROR"
      [] status_code = 503 -> "SERVICE_UNAVAILABLE"
      [] status_code = 504 -> "TIMEOUT_ERROR"
      [] OTHER -> "INTERNAL_ERROR"

\* a faulty HTTP processor: a server-side status does not ask for an alert
HttpNeverAlerts(e, ctx, u) ==
    {Outcome(
        ErrorResponseSchema(
            [error |-> ErrorCode[_map_status_to_error_code(e.status_code)].code,
             message |-> e.detail,
             status_code |-> e.status_code,
             timestamp |-> ctx.timestamp,
             request_id |-> ctx.request_id,
             path |-> ctx.path,
             method |-> ctx.method,
             correlation_id |-> ctx.correlation_id,
             trace_id |-> Uuid(u + 1)]),
        IF e.status_code >= 500 THEN ERROR ELSE WARNING, FALSE,
        {<<"error_type", "http">>, <<"status_code", ToString(e.status_code)>>},
        e, 1)}

\* HttpErrorProcessor.process
HttpProcess(e, ctx, u) ==
    LET error_code == _map_status_to_error_code(e.status_code)
        severity   == IF e.status_code >= 500 THEN ERROR ELSE WARNING
    IN {Outcome(
            ErrorResponseSchema(
                [error |-> ErrorCode[error_code].code,
                 message |-> e.detail,
                 status_code |-> e.status_code,
                 timestamp |-> ctx.timestamp,
                 request_id |-> ctx.request_id,
                 path |-> ctx.path,
                 method |-> ctx.method,
                 correlation_id |-> ctx.correlation_id,
                 trace_id |-> Uuid(u + 1)]),
            severity, e.status_code >= 500,
            {<<"error_type", "http">>, <<"status_code", ToString(e.status_code)>>},
            e, 1)}

\* DatabaseErrorProcessor._analyze_database_error
_analyze_database_error(e) ==
    LET error_str == Lower(e.text)
    IN IF IsInstance(e, {"IntegrityError"})
       THEN IF Contains(error_str, "duplicate") \/ Contains(error_str, "unique")
            THEN [error_code |-> "DUPLICATE_RESOURCE", message |-> "Resource already exists",
                  suggestions |-> <<"Use unique values", "Check existing data">>]
            ELSE [error_code |-> "DATABASE_ERROR", message |-> "Data constraint violation",
                  suggestions |-> <<"Verify data integrity", "Check required relationships">>]
       ELSE [error_code |-> "DATABASE_ERROR", message |-> "Database operation failed",
             suggestions |-> <<"Try again", "Contact support if persistent">>]

\* DatabaseErrorProcessor.process
DatabaseProcess(e, ctx, u) ==
    LET a == _analyze_database_error(e)
    IN {Outcome(
            ErrorResponseSchema(
                [error |-> ErrorCode[a.error_code].code,
                 message |-> a.message,
                 status_code |-> ErrorCode[a.error_code].status_code,
                 timestamp |-> ctx.timestamp,
                 request_id |-> ctx.request_id,
                 path |-> ctx.path,
                 method |-> ctx.method,
                 correlation_id |-> ctx.correlation_id,
                 trace_id |-> Uuid(u + 1),
                 suggestions |-> <<a.suggestions>>]),
            ERROR, TRUE,
            {<<"error_type", "database">>, <<"db_error", e.cls>>},
            e, 1)}

\* a faulty mapping: the code's severity is handed on as it is
MapSeverityIdentity(error_severity) == error_severity

\* CustomErrorProcessor._map_severity
_map_severity(error_severity) ==
    CASE error_severity = LOW -> INFO
      [] error_severity = MEDIUM -> WARNING
      [] error_severity = HIGH -> ERROR
      [] error_severity = CRITICAL -> CRITICAL
      [] OTHER -> ERROR

\* CustomErrorProcessor.process: the context is written onto the exception, then rendered
CustomProcess(e, ctx, u) ==
    LET e2 == [e EXCEPT !.request_id = ctx.request_id, !.path = ctx.path,
                        !.method = ctx.method, !.correlation_id = ctx.correlation_id]
    IN {[Outcome(ToSchema(e2),
                 _map_severity(ErrorCode[e2.error_code].severity),
                 ErrorCode[e2.error_code].severity \in {HIGH, CRITICAL},
                 {<<"error_type", "custom">>, <<"error_code", ErrorCode[e2.error_code].code>>},
                 e2, 0)
            EXCEPT !.raised = ToSchemaRaises(e2)]}

\* a faulty fallback: the unexpected exception is raised again
FallbackReraises(e, ctx, u) ==
    {[Outcome(ErrorResponseSchema([error |-> ErrorCode.INTERNAL_ERROR.code]), CRITICAL, TRUE,
              {<<"error_type", "unexpected">>}, e, 0)
        EXCEPT !.raised = TRUE]}

\* FallbackErrorProcessor.process
FallbackProcess(e, ctx, u) ==
    {Outcome(
        ErrorResponseSchema(
            [error |-> ErrorCode.INTERNAL_ERROR.code,
             message |-> "An unexpected error occurred",
             status_code |-> ErrorCode.INTERNAL_ERROR.status_code,
             timestamp |-> ctx.timestamp,
             request_id |-> ctx.request_id,
             path |-> ctx.path,
             method |-> ctx.method,
             correlation_id |-> ctx.correlation_id,
             trace_id |-> Uuid(u + 1),
             suggestions |-> <<<<"Try again later", "Contact support if problem persists">>>>]),
        CRITICAL, TRUE,
        {<<"error_type", "unexpected">>, <<"exception", e.cls>>},
        e, 1)}

\* processor.process(exc, context): the outcomes it can have
process(p, e, ctx, u) ==
    CASE p = "CustomErrorProcessor" -> CustomProcess(e, ctx, u)
      [] p = "ValidationErrorProcessor" -> ValidationProcess(e, ctx, u)
      [] p = "HttpErrorProcessor" -> HttpProcess(e, ctx, u)
      [] p = "DatabaseErrorProcessor" -> DatabaseProcess(e, ctx, u)
      [] p = "FallbackErrorProcessor" -> FallbackProcess(e, ctx, u)

RECURSIVE InsertByPriority(_, _)
\* p put into a list sorted by priority, after the members that do not come later
InsertByPriority(p, sorted) ==
    IF sorted = <<>> THEN <<p>>
    ELSE IF priority(sorted[1]) <= priority(p) THEN <<sorted[1]>> \o InsertByPriority(p, Tail(sorted))
    ELSE <<p>> \o sorted

RECURSIVE SortByPriority(_)
\* list.sort(key=lambda p: p.priority): stable, ascending
SortByPriority(ps) ==
    IF ps = <<>> THEN <<>>
    ELSE InsertByPriority(ps[Len(ps)], SortByPriority(SubSeq(ps, 1, Len(ps) - 1)))

\* EnterpriseErrorHandler.__init__
EnterpriseErrorHandler(debug, enable_cors) ==
    [debug |-> debug, enable_cors |-> enable_cors,
     processors |-> SortByPriority(<<"CustomErrorProcessor", "ValidationErrorProcessor",
                                     "HttpErrorProcessor", "DatabaseErrorProcessor",
                                     "FallbackErrorProcessor">>)]

\* a faulty lookup: the last processor that can process wins
FindLastProcessor(processors, e) ==
    IF \E i \in 1..Len(processors) : can_process(processors[i], e)
    THEN processors[CHOOSE i \in 1..Len(processors) :
                       /\ can_process(processors[i], e)
                       /\ \A j \in (i + 1)..Len(processors) : ~can_process(processors[j], e)]
    ELSE None

\* EnterpriseErrorHandler._find_processor: the first processor that can process, or
\* None when the loop ends (the RuntimeError)
_find_processor(processors, e) ==
    IF \E i \in 1..Len(processors) : can_process(processors[i], e)
    THEN processors[CHOOSE i \in 1..Len(processors) :
                       /\ can_process(processors[i], e)
                       /\ \A j \in 1..(i - 1) : ~can_process(processors[j], e)]
    ELSE None

\* a faulty lookup: the inbound header is ignored
HeaderIgnored(headers, name, default) == default

\* dict.get(name, default) on the request headers
HeaderGet(headers, name, default) ==
    IF \E kv \in headers : kv[1] = name
    THEN (CHOOSE kv \in headers : kv[1] = name)[2]
    ELSE default

\* ValidationErrorDetail.model_dump(exclude_none=True)
DetailDump(d) ==
    [k \in {k \in DOMAIN d : IF k = "allowed_values" THEN d[k] # <<>> ELSE d[k] # None} |-> d[k]]

\* schema.model_dump(exclude_none=True, by_alias=True): the fields that are not None
WireBody(s) ==
    LET FieldsOf ==
            BaseSchemaFields \cup
            (IF s.kind = "ValidationErrorResponseSchema" THEN {"validation_errors"}
             ELSE IF s.kind = "BusinessErrorResponseSchema"
             THEN {"rule_name", "rule_description", "context_data"}
             ELSE {})
        IsNoneField(k) ==
            IF k \in {"status_code", "timestamp", "validation_errors"} THEN FALSE
            ELSE IF k \in {"details", "suggestions", "context_data"} THEN s[k] = <<>>
            ELSE s[k] = None
    IN
    [k \in {k \in FieldsOf : ~IsNoneField(k)} |->
        IF k = "validation_errors"
        THEN [i \in 1..Len(s.validation_errors) |-> DetailDump(s.validation_errors[i])]
        ELSE s[k]]

\* a logging call: logger, level, exc_info
LogCall(logger, level, exc_info) ==
    [call |-> "log", logger |-> logger, level |-> level, exc_info |-> exc_info]

\* a faulty logger: every result is written at error level
LogErrorAlwaysError(res) == LogCall("error_processor", "error", TRUE)

\* ErrorLoggerService.log_error: the level is chosen by the result severity
log_error(res) ==
    IF res.severity = CRITICAL THEN LogCall("error_processor", "critical", TRUE)
    ELSE IF res.severity = ERROR THEN LogCall("error_processor", "error", TRUE)
    ELSE IF res.severity = WARNING THEN LogCall("error_processor", "warning", FALSE)
    ELSE LogCall("error_processor", "info", FALSE)

\* BaseError._auto_log: the level is chosen by the code's severity
_auto_log(e) ==
    LET sev == ErrorCode[e.error_code].severity
    IN IF sev = CRITICAL THEN LogCall("exceptions", "critical", FALSE)
       ELSE IF sev = HIGH THEN LogCall("exceptions", "error", FALSE)
       ELSE IF sev = MEDIUM THEN LogCall("exceptions", "warning", FALSE)
       ELSE LogCall("exceptions", "info", FALSE)

\* EnterpriseErrorHandler._create_response
_create_response(h, schema, ctx) ==
    [status_code |-> schema.status_code,
     content |-> WireBody(schema),
     headers |-> {<<"Content-Type", "application/json">>,
                  <<"X-Request-ID", ctx.request_id>>,
                  <<"X-Correlation-ID", ctx.correlation_id>>,
                  <<"X-Trace-ID", schema.trace_id>>}
                 \cup (IF h.enable_cors
                       THEN {<<"Access-Control-Allow-Origin", "*">>,
                             <<"Access-Control-Allow-Headers", "*">>,
                             <<"Access-Control-Expose-Headers", "X-Request-ID, X-Correlation-ID, X-Trace-ID">>}
                       ELSE {})]

\* ------------------------------------- middlewares/error_middleware.py

\* ErrorMiddleware._extract_expected_type
_extract_expected_type(error) ==
    CASE error.type = "string_type" -> "string"
      [] error.type = "int_parsing" -> "integer"
      [] error.type = "float_parsing" -> "float"
      [] error.type = "bool_parsing" -> "boolean"
      [] error.type = "list_type" -> "array"
      [] error.type = "dict_type" -> "object"
      [] error.type = "email" -> "email"
      [] error.type = "url" -> "url"
      [] error.type = "uuid_parsing" -> "uuid"
      [] error.type = "datetime_parsing" -> "datetime"
      [] OTHER -> error.type

\* what a branch of ErrorMiddleware._handle_error hands back
Handled(schema, raised, e, uuids, clocks, logs) ==
    [schema |-> schema, raised |-> raised, exc |-> e, uuids |-> uuids, clocks |-> clocks,
     logs |-> logs]

\* ErrorMiddleware._handle_fastapi_validation
_handle_fastapi_validation(e, path, method, request_id, correlation_id, u, t) ==
    LET validation_errors ==
            [i \in 1..Len(e.errors) |->
                ValidationErrorDetail(Join(".", e.errors[i].loc), e.errors[i].msg,
                                      e.errors[i].input, e.errors[i].type,
                                      _extract_expected_type(e.errors[i]), <<>>)]
        schema ==
            ValidationErrorResponseSchema(
                [error |-> ErrorCode.VALIDATION_ERROR.code,
                 message |-> "The submitted data contains validation errors",
                 status_code |-> ErrorCode.VALIDATION_ERROR.status_code,
                 timestamp |-> t + 1,
                 request_id |-> request_id,
                 path |-> path,
                 method |-> method,
                 correlation_id |-> correlation_id,
                 trace_id |-> Uuid(u + 1),
                 validation_errors |-> validation_errors,
                 suggestions |-> <<<<"Check the fields marked as invalid",
                                     "Refer to API documentation for expected formats">>>>])
    IN Handled(schema, ~SchemaValid(schema), e, 1, 1, <<LogCall("error_middleware", "warning", FALSE)>>)

\* the status_mapping of ErrorMiddleware._handle_http_error (None when unmapped)
status_mapping(status_code) ==
    CASE status_code = 404 -> "RESOURCE_NOT_FOUND"
      [] status_code = 401 -> "INVALID_CREDENTIALS"
      [] status_code = 403 -> "ACCESS_DENIED"
      [] status_code = 409 -> "DUPLICATE_RESOURCE"
      [] status_code = 429 -> "QUOTA_EXCEEDED"
      [] status_code = 500 -> "INTERNAL_ERROR"
      [] status_code = 502 -> "EXTERNAL_SERVICE_ERROR"
      [] status_code = 503 -> "SERVICE_UNAVAILABLE"
      [] status_code = 504 -> "TIMEOUT_ERROR"
      [] OTHER -> None

\* ErrorMiddleware._handle_http_error
_handle_http_error(e, path, method, request_id, correlation_id, u, t) ==
    LET error_code == status_mapping(e.status_code)
        schema ==
            IF error_code # None
            THEN ErrorResponseSchema(
                    [error |-> ErrorCode[error_code].code,
                     message |-> ErrorCode[error_code].message,
                     status_code |-> ErrorCode[error_code].status_code,
                     timestamp |-> t + 1,
                     request_id |-> request_id,
                     path |-> path,
                     method |-> method,
                     correlation_id |-> correlation_id,
                     trace_id |-> Uuid(u + 1)])
            ELSE ErrorResponseSchema(
                    [error |-> "HTTP_ERROR",
                     message |-> e.detail,
                     status_code |-> e.status_code,
                     timestamp |-> t + 1,
                     request_id |-> request_id,
                     path |-> path,
                     method |-> method,
                     correlation_id |-> correlation_id,
                     trace_id |-> Uuid(u + 1)])
    IN Handled(schema, ~SchemaValid(schema), e, 1, 1,
               IF error_code # None THEN <<LogCall("error_middleware", "warning", FALSE)>> ELSE <<>>)

\* ErrorMiddleware._handle_db_error
_handle_db_error(e, path, method, request_id, correlation_id, debug, u, t) ==
    LET error_str == Lower(e.text)
        a == IF IsInstance(e, {"IntegrityError"})
             THEN IF \/ Contains(error_str, "duplicate")
                     \/ Contains(error_str, "unique")
                     \/ Contains(error_str, "already exists")
                  THEN [error_code |-> "DUPLICATE_RESOURCE", message |-> "Resource already exists",
                        suggestions |-> <<"Use unique values", "Check the data being submitted">>]
                  ELSE [error_code |-> "DATABASE_ERROR", message |-> "Database constraint violation",
                        suggestions |-> <<"Check data integrity", "Contact support if problem persists">>]
             ELSE [error_code |-> "DATABASE_ERROR", message |-> "Database operation failed",
                   suggestions |-> <<"Try again", "Contact support if problem persists">>]
        details == IF debug
                   THEN <<{<<"database_error", e.text>>, <<"error_type", e.cls>>,
                           <<"traceback", "Traceback: " \o e.text>>}>>
                   ELSE <<>>
        schema ==
            ErrorResponseSchema(
                [error |-> ErrorCode[a.error_code].code,
                 message |-> a.message,
                 status_code |-> ErrorCode[a.error_code].status_code,
                 timestamp |-> t + 1,
                 request_id |-> request_id,
                 path |-> path,
                 method |-> method,
                 correlation_id |-> correlation_id,
                 trace_id |-> Uuid(u + 1),
                 details |-> details,
                 suggestions |-> <<a.suggestions>>])
    IN Handled(schema, ~SchemaValid(schema), e, 1, 1, <<LogCall("error_middleware", "error", FALSE)>>)

\* ErrorMiddleware._handle_unexpected_error
_handle_unexpected_error(e, path, method, request_id, correlation_id, debug, u, t) ==
    LET details == IF debug
                   THEN <<{<<"error_type", e.cls>>, <<"error_message", e.text>>,
                           <<"traceback", "Traceback: " \o e.text>>}>>
                   ELSE <<>>
        schema ==
            ErrorResponseSchema(
                [error |-> ErrorCode.INTERNAL_ERROR.code,
                 message |-> "Internal server error",
                 status_code |-> ErrorCode.INTERNAL_ERROR.status_code,
                 timestamp |-> t + 1,
                 request_id |-> request_id,
                 path |-> path,
                 method |-> method,
                 correlation_id |-> correlation_id,
                 trace_id |-> Uuid(u + 1),
                 details |-> details,
                 suggestions |-> <<<<"Try again in a few minutes",
                                     "Contact technical support if the problem persists">>>>])
    IN Handled(schema, ~SchemaValid(schema), e, 1, 1, <<LogCall("error_middleware", "critical", TRUE)>>)

\* the branch of ErrorMiddleware._handle_error taken for e, after _log_error_context
_handle_error(e, req, request_id, correlation_id, debug, u, t) ==
    LET path == req.path
        method == req.method
        branch ==
            IF IsInstance(e, DomainClasses)
            THEN LET e2 == [e EXCEPT !.request_id = request_id, !.path = path,
                                     !.method = method, !.correlation_id = correlation_id]
                 IN Handled(ToSchema(e2), ToSchemaRaises(e2), e2, 0, 0, <<>>)
            ELSE IF IsInstance(e, {"RequestValidationError"})
            THEN _handle_fastapi_validation(e, path, method, request_id, correlation_id, u, t)
            ELSE IF IsInstance(e, {"HTTPException"})
            THEN _handle_http_error(e, path, method, request_id, correlation_id, u, t)
            ELSE IF IsInstance(e, {"IntegrityError", "SQLAlchemyError"})
            THEN _handle_db_error(e, path, method, request_id, correlation_id, debug, u, t)
            ELSE _handle_unexpected_error(e, path, method, request_id, correlation_id, debug, u, t)
    IN [branch EXCEPT !.logs = <<LogCall("error_middleware", "error", TRUE)>> \o @]

\* ErrorMiddleware._create_json_response
_create_json_response(h, schema) ==
    [status_code |-> schema.status_code,
     content |-> WireBody(schema),
     headers |-> {<<"Content-Type", "application/json">>,
                  <<"X-Content-Type-Options", "nosniff">>,
                  <<"X-Frame-Options", "DENY">>,
                  <<"X-Request-ID", schema.request_id>>,
                  <<"X-Correlation-ID", IF schema.correlation_id = None THEN "" ELSE schema.correlation_id>>,
                  <<"X-Trace-ID", IF schema.trace_id = None THEN "" ELSE schema.trace_id>>}
                 \cup (IF h.enable_cors
                       THEN {<<"Access-Control-Allow-Origin", "*">>,
                             <<"Access-Control-Allow-Methods", "GET, POST, PUT, DELETE, PATCH, OPTIONS">>,
                             <<"Access-Control-Allow-Headers", "*">>,
                             <<"Access-Control-Expose-Headers", "X-Request-ID, X-Correlation-ID, X-Trace-ID">>}
                       ELSE {})]

\* ------------------------------------- exceptions.py: the collector

NoKwargs == [k \in {} |-> None]

\* ValidationErrorCollector.add_error
add_error(errors, field, message, invalid_value, constraint, expected_type, allowed_values) ==
    Append(errors, ValidationErrorDetail(field, message, invalid_value, constraint,
                                         expected_type, allowed_values))

\* ValidationErrorCollector.add_validation_error: every entry is rebuilt from its dump
add_validation_error(errors, validation_error) ==
    errors \o [i \in 1..Len(validation_error.validation_errors) |->
                  LET err == validation_error.validation_errors[i]
                  IN ValidationErrorDetail(err.field, err.message, err.invalid_value,
                                           err.constraint, err.expected_type, err.allowed_values)]

\* ValidationErrorCollector.has_errors
has_errors(errors) == Len(errors) > 0

\* what a call that may raise hands back
Returned(value) == [raised |-> FALSE, value |-> value, exc |-> NoExc]
Raised(e) == [raised |-> TRUE, value |-> None, exc |-> e]

\* a faulty collector: only the first failure is raised
RaiseFirstOnly(errors, kwargs, u, t) ==
    IF has_errors(errors) THEN Raised(from_multiple(<<errors[1]>>, kwargs, u, t)) ELSE Returned(None)

\* ValidationErrorCollector.raise_if_errors
raise_if_errors(errors, kwargs, u, t) ==
    IF has_errors(errors) THEN Raised(from_multiple(errors, kwargs, u, t)) ELSE Returned(None)

\* ---------------------------------------------------- validators.py

\* a value of data that is not a str (an int)
IntValue == "<int>"

\* Python truth of an optional str
Truthy(v) == v # None /\ v # ""

\* every character of s is one of chars
AllIn(s, chars) == \A i \in 1..Len(s) : Contains(chars, SubSeq(s, i, i))

\* str.strip(): from the first to the last character that is not a blank
Strip(s) ==
    LET kept == {i \in 1..Len(s) : SubSeq(s, i, i) # " "}
    IN IF kept = {} THEN ""
       ELSE SubSeq(s, CHOOSE i \in kept : \A j \in kept : i <= j,
                   CHOOSE i \in kept : \A j \in kept : j <= i)

\* re.match(EMAIL_PATTERN, s): local part, @, domain, a dot, two or more letters
EMAIL_PATTERN(s) ==
    \E i, j \in 1..Len(s) :
        /\ 1 < i /\ i + 1 < j /\ j + 2 <= Len(s)
        /\ SubSeq(s, i, i) = "@"
        /\ SubSeq(s, j, j) = "."
        /\ AllIn(SubSeq(s, 1, i - 1), UpperChars \o LowerChars \o "0123456789" \o "._%+-")
        /\ AllIn(SubSeq(s, i + 1, j - 1), UpperChars \o LowerChars \o "0123456789" \o ".-")
        /\ AllIn(SubSeq(s, j + 1, Len(s)), UpperChars \o LowerChars)

\* re.match(USERNAME_PATTERN, s)
USERNAME_PATTERN(s) ==
    /\ 3 <= Len(s) /\ Len(s) <= 50
    /\ AllIn(s, UpperChars \o LowerChars \o "0123456789" \o "_")

\* Validators.validate_email
validate_email(email, field, u, t) ==
    IF ~Truthy(email)
    THEN Raised(ValidationError(field, ValidationMessages.EMAIL_REQUIRED, None, "required",
                                "string", <<>>, <<>>, NoKwargs, u, t))
    ELSE LET normalized == Lower(Strip(email))
         IN IF ~EMAIL_PATTERN(normalized)
            THEN Raised(ValidationError(field, ValidationMessages.EMAIL_INVALID_FORMAT, normalized,
                                        "email_format", "email", <<>>, <<>>, NoKwargs, u, t))
            ELSE Returned(normalized)

\* Validators.validate_password
validate_password(password, field, u, t) ==
    IF ~Truthy(password)
    THEN Raised(ValidationError(field, ValidationMessages.PASSWORD_REQUIRED, None, "required",
                                None, <<>>, <<>>, NoKwargs, u, t))
    ELSE LET issues == IF Len(password) < 8 THEN <<"at least 8 characters">> ELSE <<>>
         IN IF issues # <<>>
            THEN Raised(ValidationError(field, ValidationMessages.PASSWORD_REQUIREMENTS, None,
                                        "password_strength", None, <<>>, <<>>, NoKwargs, u, t))
            ELSE Returned(None)

\* Validators.validate_username
validate_username(username, field, u, t) ==
    IF ~Truthy(username)
    THEN Raised(ValidationError(field, ValidationMessages.USERNAME_REQUIRED, None, "required",
                                None, <<>>, <<>>, NoKwargs, u, t))
    ELSE LET normalized == Lower(Strip(username))
         IN IF ~USERNAME_PATTERN(normalized)
            THEN Raised(ValidationError(field, ValidationMessages.USERNAME_INVALID_FORMAT, normalized,
                                        "username_format", "alphanumeric_underscore", <<>>, <<>>,
                                        NoKwargs, u, t))
            ELSE Returned(normalized)

\* Validators.validate_string_length with allow_empty=False; max_length 0 stands for None
validate_string_length(value, field, min_length, max_length, u, t) ==
    IF value = IntValue
    THEN Raised(ValidationError(field, "'" \o field \o "' must be string", "int", None,
                                "string", <<>>, <<>>, NoKwargs, u, t))
    ELSE LET stripped == Strip(value)
             length == Len(stripped)
         IN IF length = 0
            THEN Raised(ValidationError(field, "'" \o field \o "' cannot be empty", None, "not_empty",
                                        None, <<>>, <<>>, NoKwargs, u, t))
            ELSE IF length < min_length
            THEN Raised(ValidationError(field, get_min_length_message(field, min_length),
                                        ToString(length), "min_length_" \o ToString(min_length),
                                        None, <<>>, <<>>, NoKwargs, u, t))
            ELSE IF max_length # 0 /\ length > max_length
            THEN Raised(ValidationError(field, get_max_length_message(field, max_length),
                                        ToString(length), "max_length_" \o ToString(max_length),
                                        None, <<>>, <<>>, NoKwargs, u, t))
            ELSE Returned(stripped)

\* one try/except step of validate_user_data_bulk: acc is the collector, the uuid and
\* clock counters and the log calls so far; r is what the validator handed back
Collect(acc, r) ==
    IF r.raised
    THEN [errors |-> add_validation_error(acc.errors, r.exc), u |-> acc.u + 2, t |-> acc.t + 1,
          logs |-> Append(acc.logs, _auto_log(r.exc))]
    ELSE acc

\* validate_user_data_bulk, the email step
BulkEmail(d, acc) == Collect(acc, validate_email(d.email, "email", acc.u, acc.t))

\* validate_user_data_bulk, the username step
BulkUsername(d, acc) == Collect(acc, validate_username(d.username, "username", acc.u, acc.t))

\* validate_user_data_bulk, the password step
BulkPassword(d, acc) == Collect(acc, validate_password(d.password, "password", acc.u, acc.t))

\* validate_user_data_bulk, the full_name step: skipped when the value is falsy
BulkFullName(d, acc) ==
    IF d.full_name = IntValue \/ Truthy(d.full_name)
    THEN Collect(acc, validate_string_length(d.full_name, "full_name", 2, 100, acc.u, acc.t))
    ELSE acc

\* validate_user_data_bulk, collector.raise_if_errors() at the end
BulkRaise(acc, r, u, t) ==
    [raised |-> r.raised, exc |-> r.exc,
     uuids |-> (acc.u - u) + (IF r.raised THEN 2 ELSE 0),
     clocks |-> (acc.t - t) + (IF r.raised THEN 1 ELSE 0),
     logs |-> IF r.raised THEN Append(acc.logs, _auto_log(r.exc)) ELSE acc.logs]

BulkFinish(acc, u, t) == BulkRaise(acc, raise_if_errors(acc.errors, NoKwargs, acc.u, acc.t), u, t)

\* Validators.validate_user_data_bulk
validate_user_data_bulk(d, u, t) ==
    BulkFinish(
        BulkFullName(d,
            BulkPassword(d,
                BulkUsername(d,
                    BulkEmail(d, [errors |-> <<>>, u |-> u, t |-> t, logs |-> <<>>])))),
        u, t)

\* --------------------------------- utils/exceptions.py, the framework

\* BaseCustomException.__init__ of a subclass: str(e) is the message
BaseCustomException(cls, message) ==
    [BlankExc EXCEPT !.cls = cls, !.message = message, !.text = message]

\* fastapi.HTTPException(status_code, detail)
HTTPException(status_code, detail) ==
    [BlankExc EXCEPT !.cls = "fastapi.HTTPException", !.status_code = status_code,
                     !.detail = detail, !.text = ToString(status_code) \o ": " \o detail]

\* RequestValidationError(errors)
RequestValidationError(errors) ==
    [BlankExc EXCEPT !.cls = "RequestValidationError", !.errors = errors,
                     !.text = ToString(Len(errors)) \o " validation errors"]

\* an exception of the driver or of the runtime: str(e) is text
RawException(cls, text) == [BlankExc EXCEPT !.cls = cls, !.text = text]

\* ------------------------------------------------ repositories/base.py

\* BaseRepository.transaction: what leaves the with block when e was raised inside it
transaction(e) ==
    IF IsInstance(e, {"SQLAlchemyError"})
    THEN BaseCustomException("utils.DatabaseError", "Database operation failed: " \o e.text)
    ELSE BaseCustomException("utils.DatabaseError", "Unexpected database error: " \o e.text)

\* BaseRepository.create: failure is what the session raised (NoExc when nothing)
create(failure) ==
    IF failure = NoExc THEN Returned("db_obj") ELSE Raised(transaction(failure))

\* the unique constraints of the users table, on email and on username (models/user.py):
\* no two rows, soft-deleted rows included, share a value; the primary key is unique
UniqueConstraints(rows) ==
    \A r, q \in rows : r # q => (r.id # q.id /\ r.email # q.email /\ r.username # q.username)

\* db.add(self.model(**obj_data)) and db.flush(): the table with the new row and the
\* primary key drawn for it, or the IntegrityError of the flush
Insert(table, obj) ==
    LET row == [id |-> table.next_id, email |-> obj.email, username |-> obj.username,
                deleted_at |-> <<>>]
    IN IF UniqueConstraints(table.rows \cup {row})
       THEN [table |-> [rows |-> table.rows \cup {row}, next_id |-> table.next_id + 1],
             failure |-> NoExc]
       ELSE [table |-> table,
             failure |-> RawException("IntegrityError",
                                      "(psycopg2.errors.UniqueViolation) duplicate key value violates unique constraint")]

\* the reading methods of BaseRepository on the rows of the table: every query filters
\* deleted_at IS NULL; a list comes in primary key order, None is <<>>
BaseRepository(rows, method, args) ==
    LET live == {r \in rows : r.deleted_at = <<>>}
        hasattr(field) == field \in {"id", "email", "username", "deleted_at"}
        filtered(filters) ==
            {r \in live : \A f \in filters : (hasattr(f[1]) /\ f[2] # None) => r[f[1]] = f[2]}
        all(S) == [i \in 1..Cardinality(S) |->
                      CHOOSE r \in S : Cardinality({q \in S : q.id < r.id}) = i - 1]
        window(xs, skip, limit) ==
            SubSeq(xs, skip + 1, IF skip + limit < Len(xs) THEN skip + limit ELSE Len(xs))
        first(S) == IF S = {} THEN <<>> ELSE <<all(S)[1]>>
    IN CASE method = "get" -> first({r \in live : r.id = args.id})
         [] method = "get_multi" -> window(all(filtered(args.filters)), args.skip, args.limit)
         [] method = "get_all" -> all(live)
         [] method = "get_by_field" ->
                IF ~hasattr(args.field) THEN <<>>
                ELSE first({r \in live : r[args.field] = args.value})
         [] method = "get_multiple_by_ids" -> all({r \in live : r.id \in args.ids})
         [] method = "exists" -> first({r \in live : r.id = args.id}) # <<>>
         [] method = "exists_by_field" ->
                IF ~hasattr(args.field) THEN FALSE
                ELSE first({r \in live : r[args.field] = args.value}) # <<>>
         [] method = "count" -> Cardinality(filtered(args.filters))
         [] method = "get_with_pagination" ->
                <<window(all(filtered(args.filters)), args.skip, args.limit),
                  Cardinality(filtered(args.filters))>>

\* ------------------------------------- repositories/user_repository.py

\* UserRepository.exists_by_email / exists_by_username, exclude_id left at None
UserRepository(rows, method, value) ==
    CASE method = "exists_by_email" ->
            \E r \in rows : r.email = value /\ r.deleted_at = <<>>
      [] method = "exists_by_username" ->
            \E r \in rows : r.username = value /\ r.deleted_at = <<>>

\* ---------------------------------------- core/services/auth_service.py

\* AuthService._check_user_uniqueness
_check_user_uniqueness(email, username, exists_by_email, exists_by_username) ==
    IF exists_by_email
    THEN Raised(BaseCustomException("utils.UserAlreadyExistsError",
                                    "User with email " \o email \o " already exists"))
    ELSE IF exists_by_username
    THEN Raised(BaseCustomException("utils.UserAlreadyExistsError",
                                    "User with username " \o username \o " already exists"))
    ELSE Returned(None)

\* AuthService.create_user
create_user(email, username, exists_by_email, exists_by_username, failure) ==
    LET unique == _check_user_uniqueness(email, username, exists_by_email, exists_by_username)
        created == create(failure)
    IN IF unique.raised THEN unique
       ELSE IF created.raised
       THEN Raised(BaseCustomException("utils.DatabaseError",
                                       "Failed to create user: " \o created.exc.text))
       ELSE Returned("UserResponse")

\* AuthService.authenticate_user: user_found is get_by_email, password_ok is verify_password
authenticate_user(user_found, password_ok, is_active) ==
    IF ~user_found
    THEN Raised(BaseCustomException("utils.InvalidCredentialsError", "Invalid email or password"))
    ELSE IF ~password_ok
    THEN Raised(BaseCustomException("utils.InvalidCredentialsError", "Invalid email or password"))
    ELSE IF ~is_active
    THEN Raised(BaseCustomException("utils.UserInactiveError", "User account is inactive"))
    ELSE Returned("UserResponse")

\* ------------------------------------------------------ services/base.py

\* BaseService.execute_operation_within_transaction with commit_transaction_or_raise_error
\* and safely_rollback_transaction_without_exceptions: outcome is what operation() did,
\* commit_failure what db.commit() raised and rollback_failure what every db.rollback()
\* of the call raised (NoExc when it worked); calls are the Session calls made, in order
execute_operation_within_transaction(outcome, commit_failure, rollback_failure, u, t) ==
    LET rollback == IF rollback_failure = NoExc
                    THEN LogCall("BaseService", "debug", FALSE)
                    ELSE LogCall("BaseService", "error", FALSE)
        commit == DatabaseError("commit_transaction", {<<"error", commit_failure.text>>},
                                NoKwargs, u, t)
        unrolled == DatabaseError("transaction_execution", {<<"error", rollback_failure.text>>},
                                  NoKwargs, u, t)
        converted == DatabaseError("transaction_execution", {<<"error", outcome.exc.text>>},
                                   NoKwargs, u, t)
    IN IF ~outcome.raised
       THEN IF commit_failure = NoExc
            THEN Merge(outcome, [uuids |-> 0, clocks |-> 0,
                                 logs |-> <<LogCall("BaseService", "debug", FALSE)>>,
                                 calls |-> <<"commit">>])
            ELSE IF rollback_failure = NoExc
            THEN Merge(Raised(commit),
                       [uuids |-> 2, clocks |-> 1,
                        logs |-> <<LogCall("BaseService", "error", FALSE), _auto_log(commit), rollback>>,
                        calls |-> <<"commit", "rollback", "rollback">>])
            ELSE Merge(Raised(unrolled),
                       [uuids |-> 2, clocks |-> 1,
                        logs |-> <<rollback, _auto_log(unrolled)>>,
                        calls |-> <<"commit", "rollback", "rollback">>])
       ELSE IF IsInstance(outcome.exc, {"ValidationError", "ResourceNotFoundError",
                                        "DuplicateResourceError", "DatabaseError"})
       THEN Merge(outcome, [uuids |-> 0, clocks |-> 0, logs |-> <<rollback>>,
                            calls |-> <<"rollback">>])
       ELSE Merge(Raised(converted),
                  [uuids |-> 2, clocks |-> 1, logs |-> <<rollback, _auto_log(converted)>>,
                   calls |-> <<"rollback">>])

\* BaseService.get_resource_or_raise_not_found: outcome is what get_func(resource_id) did
get_resource_or_raise_not_found(resource_id, outcome, resource_type, u, t) ==
    LET missing == ResourceNotFoundError(resource_type, resource_id, NoKwargs, u, t)
        converted == DatabaseError("get_" \o Lower(resource_type),
                                   {<<"resource_id", resource_id>>, <<"error", outcome.exc.text>>},
                                   NoKwargs, u, t)
    IN IF ~outcome.raised
       THEN IF outcome.value = None
            THEN Merge(Raised(missing), [uuids |-> 2, clocks |-> 1, logs |-> <<_auto_log(missing)>>])
            ELSE Merge(outcome, [uuids |-> 0, clocks |-> 0, logs |-> <<>>])
       ELSE IF IsInstance(outcome.exc, {"ResourceNotFoundError", "ValidationError",
                                        "DuplicateResourceError"})
       THEN Merge(outcome, [uuids |-> 0, clocks |-> 0, logs |-> <<>>])
       ELSE Merge(Raised(converted),
                  [uuids |-> 2, clocks |-> 1,
                   logs |-> <<LogCall("BaseService", "error", FALSE), _auto_log(converted)>>])

\* BaseService.check_resource_not_exist_or_raise_duplicate: outcome is what check_func()
\* did, its value being "True" when the resource exists
check_resource_not_exist_or_raise_duplicate(outcome, resource_type, field, value, u, t) ==
    LET duplicate == DuplicateResourceError(resource_type, field, value, NoKwargs, u, t)
        converted == DatabaseError("check_" \o Lower(resource_type) \o "_exists",
                                   {<<"field", field>>, <<"value", value>>,
                                    <<"error", outcome.exc.text>>},
                                   NoKwargs, u, t)
    IN IF ~outcome.raised
       THEN IF outcome.value = "True"
            THEN Merge(Raised(duplicate), [uuids |-> 2, clocks |-> 1, logs |-> <<_auto_log(duplicate)>>])
            ELSE Merge(Returned(None), [uuids |-> 0, clocks |-> 0, logs |-> <<>>])
       ELSE IF IsInstance(outcome.exc, {"DuplicateResourceError"})
       THEN Merge(outcome, [uuids |-> 0, clocks |-> 0, logs |-> <<>>])
       ELSE Merge(Raised(converted),
                  [uuids |-> 2, clocks |-> 1,
                   logs |-> <<LogCall("BaseService", "error", FALSE), _auto_log(converted)>>])

\* BaseService.validate_pagination_params: a parameter is an int ([type |-> "int"]) or a
\* str ([type |-> "str"]); str.isdigit() and int() are computed digit by digit
validate_pagination_params(page, per_page, max_per_page, u, t) ==
    LET isdigit(v) == v.str # "" /\ AllIn(v.str, "0123456789")
        int(v) == LET val[i \in 0..Len(v.str)] ==
                          IF i = 0 THEN 0
                          ELSE 10 * val[i - 1]
                               + (CHOOSE d \in 0..9 :
                                     SubSeq("0123456789", d + 1, d + 1) = SubSeq(v.str, i, i))
                  IN val[Len(v.str)]
        accepted(v) == v.type = "int" /\ v.int >= 1
        converted(v) == v.type = "str" /\ isdigit(v)
        normal(v) == IF accepted(v) THEN v.int ELSE int(v)
        shown(v) == IF v.type = "int" THEN ToString(v.int) ELSE v.str
    IN IF ~accepted(page) /\ ~converted(page)
       THEN Raised(ValidationError("page", "Page must be a positive integer", shown(page),
                                   "min_value_1", "integer", <<>>, <<>>, NoKwargs, u, t))
       ELSE IF ~accepted(per_page) /\ ~converted(per_page)
       THEN Raised(ValidationError("per_page", "Per page must be a positive integer",
                                   shown(per_page), "min_value_1", "integer", <<>>, <<>>,
                                   NoKwargs, u, t))
       ELSE IF normal(per_page) > max_per_page
       THEN Raised(ValidationError("per_page",
                                   "Per page cannot exceed " \o ToString(max_per_page),
                                   ToString(normal(per_page)),
                                   "max_value_" \o ToString(max_per_page), None, <<>>, <<>>,
                                   NoKwargs, u, t))
       ELSE Returned(<<normal(page), normal(per_page)>>)

\* BaseService.bulk_validate_and_create on the table: validate_func rejects an item
\* without email; create_func is BaseRepository.create, which commits inside its own
\* transaction(), or a function that only adds the row to the session and flushes
bulk_validate_and_create(items_data, table, create_func, commit_failure, rollback_failure, u, t) ==
    LET n == Len(items_data)
        invalid(i) ==
            LET e == ValidationError("email", "Email is required", None, "required", None,
                                     <<>>, <<>>, NoKwargs, u, t)
            IN [e EXCEPT !.details = @ \cup {<<"item_index", ToString(i - 1)>>,
                                             <<"total_items", ToString(n)>>}]
        batch_operation[i \in 0..n] ==
            IF i = 0
            THEN [view |-> table, committed |-> table.rows, outcome |-> Returned(<<>>)]
            ELSE LET prev == batch_operation[i - 1]
                     ins == Insert(prev.view, items_data[i])
                 IN IF prev.outcome.raised THEN prev
                    ELSE IF items_data[i].email = ""
                    THEN [prev EXCEPT !.outcome = Raised(invalid(i))]
                    ELSE IF ins.failure = NoExc
                    THEN [view |-> ins.table,
                          committed |-> IF create_func = "BaseRepository.create"
                                        THEN ins.table.rows ELSE prev.committed,
                          outcome |-> Returned(Append(prev.outcome.value, prev.view.next_id))]
                    ELSE IF create_func = "BaseRepository.create"
                    THEN [prev EXCEPT !.outcome = Raised(transaction(ins.failure))]
                    ELSE [prev EXCEPT !.outcome = Raised(ins.failure)]
        done == batch_operation[n]
        built == IF IsInstance(done.outcome.exc, {"BaseError"}) THEN 1 ELSE 0
        r == execute_operation_within_transaction(done.outcome, commit_failure,
                                                  rollback_failure, u + 2 * built, t + built)
    IN IF n = 0
       THEN Merge(Returned(<<>>), [uuids |-> 0, clocks |-> 0, logs |-> <<>>, calls |-> <<>>,
                                   operation |-> Returned(<<>>), table |-> table])
       ELSE Merge(r, [uuids |-> r.uuids + 2 * built, clocks |-> r.clocks + built,
                      logs |-> (IF built = 1 THEN <<_auto_log(done.outcome.exc)>> ELSE <<>>)
                               \o r.logs,
                      operation |-> done.outcome,
                      table |-> [rows |-> IF ~done.outcome.raised /\ commit_failure = NoExc
                                          THEN done.view.rows ELSE done.committed,
                                 next_id |-> done.view.next_id]])

\* ------------------------------------------------ api/v1/routes/auth.py

\* the create_user route
create_user_route(email, username, exists_by_email, exists_by_username, failure) ==
    LET r == create_user(email, username, exists_by_email, exists_by_username, failure)
    IN IF ~r.raised THEN r
       ELSE IF IsInstance(r.exc, {"utils.UserAlreadyExistsError"})
       THEN Raised(HTTPException(409, r.exc.text))
       ELSE IF IsInstance(r.exc, {"utils.DatabaseError"})
       THEN Raised(HTTPException(500, r.exc.text))
       ELSE r

\* the authenticate_user route
authenticate_user_route(user_found, password_ok, is_active) ==
    LET r == authenticate_user(user_found, password_ok, is_active)
    IN IF ~r.raised THEN r
       ELSE IF IsInstance(r.exc, {"utils.InvalidCredentialsError"})
       THEN Raised(HTTPException(401, r.exc.text))
       ELSE IF IsInstance(r.exc, {"utils.UserInactiveError"})
       THEN Raised(HTTPException(403, r.exc.text))
       ELSE r

\* ------------------------------------------ core/exception_handlers.py

\* validation_exception_handler: only the first error is looked at
validation_exception_handler(e) ==
    LET field_name ==
            IF e.errors # <<>>
            THEN LET field_path == e.errors[1].loc
                 IN IF field_path # <<>> THEN field_path[Len(field_path)] ELSE None
            ELSE None
    IN [status_code |-> 422,
        content |-> [error |-> "Validation Error", code |-> 422, error_type |-> "ValidationError",
                     detail |-> "Invalid input data", field |-> field_name],
        headers |-> {<<"Content-Type", "application/json">>}]

\* ------------------------------------------------------------ main.py

\* handle_custom_errors: the header carries a fresh uuid4, the body is the schema of
\* the exception as it was raised
handle_custom_errors(e, u) ==
    [status_code |-> ErrorCode[e.error_code].status_code,
     content |-> WireBody(ToSchema(e)),
     headers |-> {<<"X-Request-ID", Uuid(u + 1)>>, <<"Content-Type", "application/json">>}]

\* handle_validation_errors
handle_validation_errors(e, u, t) ==
    LET request_id == Uuid(u + 1)
        errors == [i \in 1..Len(e.errors) |->
                      LET field == Join(".", Filter(e.errors[i].loc, {"body"}))
                      IN [field |-> IF field = "" THEN "root" ELSE field,
                          message |-> e.errors[i].msg,
                          invalid_value |-> e.errors[i].input]]
    IN [status_code |-> 422,
        content |-> [error |-> "VAL001", message |-> "Validation errors found",
                     status_code |-> 422, timestamp |-> t + 1, request_id |-> request_id,
                     validation_errors |-> errors],
        headers |-> {<<"Content-Type", "application/json">>, <<"X-Request-ID", request_id>>}]

\* ------------------------------------------------------------- inputs

\* driver failures: the class and the raw text of str(e)
DriverErrors ==
    {RawException(c, x) :
        c \in {"IntegrityError", "OperationalError"},
        x \in {"(psycopg2.errors.UniqueViolation) duplicate key value violates unique constraint users_email_key",
               "(sqlite3.IntegrityError) NOT NULL constraint failed: users.email",
               "(psycopg2.OperationalError) connection refused"}}

ManySuggestions == [i \in 1..11 |-> "Suggestion " \o ToString(i)]

\* the domain errors raised, built when u uuids and t clock readings were drawn
DomainErrors(u, t) ==
    {BaseError("BaseError", c, None, NoKwargs, u, t) : c \in DOMAIN ErrorCode}
    \cup {BaseError("BaseError", "INTERNAL_ERROR", "Custom message",
                    [suggestions |-> ManySuggestions], u, t),
          BaseError("BaseError", "INVALID_FORMAT", None, [request_id |-> "throw-site-req",
                    correlation_id |-> "throw-site-corr", details |-> {<<"raw", "boom">>}], u, t),
          ValidationError("email", ValidationMessages.EMAIL_REQUIRED, None, "required", "string",
                          <<>>, <<>>, NoKwargs, u, t),
          ResourceNotFoundError("User", "42", NoKwargs, u, t),
          ResourceNotFoundError("", "42", NoKwargs, u, t),
          ResourceNotFoundError("User", "", NoKwargs, u, t),
          DuplicateResourceError("User", "email", "a@b.com", NoKwargs, u, t),
          BusinessRuleError("max_login_attempts", "Too many login attempts",
                            "Maximum 5 login attempts per hour", {<<"attempts", "6">>}, <<>>,
                            NoKwargs, u, t),
          BusinessRuleError("max_login_attempts", "Too many login attempts", None, {},
                            <<"Wait one hour", "Reset your password">>, NoKwargs, u, t),
          BusinessRuleError("max_login_attempts", "Too many login attempts", None, {},
                            ManySuggestions, NoKwargs, u, t),
          AuthenticationError(ErrorMessages.INVALID_CREDENTIALS, None, NoKwargs, u, t),
          AuthenticationError("Wrong password", "password", NoKwargs, u, t),
          AuthorizationError(ErrorMessages.ACCESS_DENIED, None, <<>>, NoKwargs, u, t),
          AuthorizationError("Not your task", "Task", <<"Ask the owner">>, NoKwargs, u, t),
          DatabaseError(None, {}, NoKwargs, u, t),
          DatabaseError("create_user", {<<"error", "connection refused">>}, NoKwargs, u, t)}

\* what is handed to ValidationErrorCollector.add_error
FieldFailures ==
    {ValidationErrorDetail("email", ValidationMessages.EMAIL_REQUIRED, None, "required", "string", <<>>),
     ValidationErrorDetail("password", ValidationMessages.PASSWORD_REQUIREMENTS, None,
                           "password_strength", None, <<>>),
     ValidationErrorDetail("username", "'username' cannot exceed 50 characters", "64",
                           "max_length_50", None, <<>>)}

\* ------------------------------------------------------ state machine

NoResult == [schema |-> SchemaDefaults, severity |-> None, should_alert |-> FALSE, metrics_tags |-> {}]

\* the handler object is built, a request has arrived, nothing has failed yet
Init ==
    /\ handler \in {EnterpriseErrorHandler(d, c) : d \in BOOLEAN, c \in BOOLEAN}
    /\ request \in {[headers |-> h, path |-> "/api/v1/users", method |-> "POST"] :
                 h \in {{}, {<<"X-Correlation-ID", "abc-123">>},
                 {<<"X-Correlation-ID", "abc-123">>, <<"X-Request-ID", "client-req-1">>}}}
    /\ pc = "normal"
    /\ exc = NoExc
    /\ ids = [request_id |-> None, correlation_id |-> None]
    /\ context = from_request([path |-> None, method |-> None], None, None, -1)
    /\ result = NoResult
    /\ response = [status_code |-> 0, content |-> [error |-> None], headers |-> {}]
    /\ events = <<>>
    /\ via = None
    /\ origin = None
    /\ collector = <<>>
    /\ added = <<>>
    /\ data = [email |-> None, username |-> None, password |-> None, full_name |-> None]
    /\ uuidCount = 0
    /\ clock = 0
    /\ rendered = <<>>
    /\ inner = NoExc
    /\ db = [rows |-> {}, next_id |-> 1]
    /\ session = [operation |-> Returned(None), commit_failure |-> NoExc,
                  rollback_failure |-> NoExc, calls |-> <<>>, left |-> Returned(None)]
    /\ callers = [c \in {1, 2} |-> [pc |-> "idle", email |-> "", username |-> "",
                                      outcome |-> Returned(None)]]
    /\ returned = [op |-> None, n |-> 0, before |-> {}, raised |-> FALSE, exc |-> NoExc,
                   value |-> None]
    /\ inflight = [pc |-> "normal",
                   request |-> [headers |-> {}, path |-> "/api/v1/tasks/7", method |-> "DELETE"],
                   exc |-> NoExc,
                   ids |-> [request_id |-> None, correlation_id |-> None],
                   context |-> from_request([path |-> None, method |-> None], None, None, -1),
                   result |-> NoResult,
                   response |-> [status_code |-> 0, content |-> [error |-> None], headers |-> {}],
                   via |-> None,
                   origin |-> None]

\* the request is being served and no validation pass is under way
Serving == pc = "normal" /\ origin = None

\* an exception e leaves the application code
Throw(e, from) ==
    /\ pc' = "raised"
    /\ exc' = e
    /\ origin' = from

\* the application code returns normally; ErrorMiddleware.dispatch adds its headers
Return(from) ==
    /\ pc' = "returned"
    /\ origin' = from
    /\ exc' = exc
    /\ response' = [status_code |-> 200, content |-> [error |-> None],
                    headers |-> IF via = "ErrorMiddleware"
                                THEN {<<"X-Request-ID", ids.request_id>>,
                                      <<"X-Correlation-ID", ids.correlation_id>>}
                                ELSE {}]

\* ErrorMiddleware.dispatch up to call_next: both ids are fixed before the route runs
Dispatch ==
    /\ Serving /\ via = None
    /\ via' = "ErrorMiddleware"
    /\ ids' = [request_id |-> Uuid(uuidCount + 1),
               correlation_id |-> HeaderGet(request.headers, "X-Correlation-ID", Uuid(uuidCount + 2))]
    /\ uuidCount' = uuidCount + 2
    /\ UNCHANGED <<storeVars, inflight, rendered, inner, handler, request, pc, exc, context, result, response, events, origin,
                   collector, added, data, clock>>

\* application code raises a domain error; its constructor logs
RaiseDomainError ==
    /\ Serving
    /\ \E e \in DomainErrors(uuidCount, clock) :
        /\ Throw(e, "domain")
        /\ events' = Append(events, _auto_log(e))
    /\ uuidCount' = uuidCount + 2
    /\ clock' = clock + 1
    /\ UNCHANGED <<storeVars, inflight, rendered, inner, handler, request, ids, context, result, response, via, collector, added, data>>

\* the framework rejects the request body: a list of failures, no failure twice
RaiseRequestValidationError ==
    /\ Serving
    /\ LET RawErrors ==
               {[loc |-> <<"body", "email">>, type |-> "missing", msg |-> "Field required",
                 input |-> None],
                [loc |-> <<"body", "password">>, type |-> "string_too_short",
                 msg |-> "String should have at least 8 characters", input |-> "abc"],
                [loc |-> <<"body", "phone">>, type |-> "value_error",
                 msg |-> "value is not a valid phone number", input |-> "12"],
                [loc |-> <<"body">>, type |-> "model_attributes_type",
                 msg |-> "Input should be a valid dictionary", input |-> "x"],
                [loc |-> <<"body", "tags">>, type |-> "too_short",
                 msg |-> "List should have at least 1 item after validation, not 0",
                 input |-> ""],
                [loc |-> <<"body", "__root__">>, type |-> "value_error",
                 msg |-> "passwords do not match", input |-> None]}
       IN \E n \in 0..MaxErrors :
          \E errors \in {f \in [1..n -> RawErrors] : \A i, j \in 1..n : i # j => f[i] # f[j]} :
            Throw(RequestValidationError(errors), "request_validation")
    /\ UNCHANGED <<storeVars, inflight, rendered, inner, handler, request, ids, context, result, response, events, via, collector,
                   added, data, uuidCount, clock>>

\* application code raises an HTTPException
RaiseHTTPException ==
    /\ Serving
    /\ \E e \in {HTTPException(c, "Not allowed here") :
               c \in {101, 400, 401, 403, 404, 405, 409, 422, 429, 500, 501, 502, 503, 504}} : Throw(e, "http")
    /\ UNCHANGED <<storeVars, inflight, rendered, inner, handler, request, ids, context, result, response, events, via, collector,
                   added, data, uuidCount, clock>>

\* a driver failure leaves the application code unwrapped
RaiseDatabaseError ==
    /\ Serving
    /\ \E e \in DriverErrors : Throw(e, "driver")
    /\ UNCHANGED <<storeVars, inflight, rendered, inner, handler, request, ids, context, result, response, events, via, collector,
                   added, data, uuidCount, clock>>

\* anything else is raised
RaiseUnexpected ==
    /\ Serving
    /\ \E e \in {RawException("RuntimeError", "boom"), RawException("KeyError", "'user_id'"),
               BaseCustomException("utils.InvalidCredentialsError", "Invalid email or password"),
               BaseCustomException("utils.DatabaseError", "Database operation failed: boom")} : Throw(e, "unexpected")
    /\ UNCHANGED <<storeVars, inflight, rendered, inner, handler, request, ids, context, result, response, events, via, collector,
                   added, data, uuidCount, clock>>

\* POST /users served by the create_user route: the repository answers the uniqueness
\* questions and the session either works or raises
CreateUserRoute ==
    /\ Serving
    /\ \E exists_by_email, exists_by_username \in BOOLEAN :
       \E failure \in {NoExc, RawException("TypeError", "'bogus' is an invalid keyword argument for User")}
                      \cup DriverErrors :
        LET r == create_user_route("ann@example.com", "ann_1", exists_by_email,
                                   exists_by_username, failure)
        IN IF r.raised
           THEN Throw(r.exc, "create_user") /\ response' = response
           ELSE Return("create_user")
    /\ UNCHANGED <<storeVars, inflight, rendered, inner, handler, request, ids, context, result, events, via, collector, added, data,
                   uuidCount, clock>>

\* POST /authenticate served by the authenticate_user route
AuthenticateUserRoute ==
    /\ Serving
    /\ \E user_found, password_ok, is_active \in BOOLEAN :
        LET r == authenticate_user_route(user_found, password_ok, is_active)
            from == IF ~user_found THEN "authenticate_user:unknown_email"
                    ELSE IF ~password_ok THEN "authenticate_user:wrong_password"
                    ELSE "authenticate_user"
        IN IF r.raised
           THEN Throw(r.exc, from) /\ response' = response
           ELSE Return(from)
    /\ UNCHANGED <<storeVars, inflight, rendered, inner, handler, request, ids, context, result, events, via, collector, added, data,
                   uuidCount, clock>>

\* POST /auth/login served by the login endpoint, which catches nothing
Login ==
    /\ Serving
    /\ \E user_found, password_ok, is_active \in BOOLEAN :
        LET r == authenticate_user(user_found, password_ok, is_active)
            from == IF ~user_found THEN "login:unknown_email"
                    ELSE IF ~password_ok THEN "login:wrong_password"
                    ELSE "login"
        IN IF r.raised
           THEN Throw(r.exc, from) /\ response' = response
           ELSE Return(from)
    /\ UNCHANGED <<storeVars, inflight, rendered, inner, handler, request, ids, context, result, events, via, collector, added, data,
                   uuidCount, clock>>

\* a validation pass is under way on a collector of its own
Collecting == pc = "normal" /\ origin \in {None, "collector"}

\* collector.add_error(...)
AddError ==
    /\ Collecting
    /\ Len(collector) < MaxCollected
    /\ \E f \in FieldFailures :
        /\ collector' = add_error(collector, f.field, f.message, f.invalid_value, f.constraint,
                                  f.expected_type, f.allowed_values)
        /\ added' = Append(added, f)
    /\ origin' = "collector"
    /\ UNCHANGED <<storeVars, inflight, rendered, inner, handler, request, pc, exc, ids, context, result, response, events, via, data,
                   uuidCount, clock>>

\* a validator raised a ValidationError and the pass hands it to
\* collector.add_validation_error
AddValidationError ==
    /\ Collecting
    /\ \E f \in FieldFailures, many \in BOOLEAN :
        LET e == IF many
                 THEN from_multiple(<<f, f>>, NoKwargs, uuidCount, clock)
                 ELSE ValidationError(f.field, f.message, f.invalid_value, f.constraint,
                                      f.expected_type, f.allowed_values, <<>>, NoKwargs,
                                      uuidCount, clock)
        IN /\ Len(collector) + Len(e.validation_errors) <= MaxCollected
           /\ collector' = add_validation_error(collector, e)
           /\ added' = added \o e.validation_errors
           /\ events' = Append(events, _auto_log(e))
    /\ origin' = "collector"
    /\ uuidCount' = uuidCount + 2
    /\ clock' = clock + 1
    /\ UNCHANGED <<storeVars, inflight, rendered, inner, handler, request, pc, exc, ids, context, result, response, via, data>>

\* collector.raise_if_errors()
RaiseIfErrors ==
    /\ Collecting
    /\ LET r == raise_if_errors(collector, NoKwargs, uuidCount, clock)
       IN IF r.raised
          THEN /\ Throw(r.exc, "collector")
               /\ events' = Append(events, _auto_log(r.exc))
               /\ uuidCount' = uuidCount + 2
               /\ clock' = clock + 1
               /\ response' = response
          ELSE /\ Return("collector")
               /\ UNCHANGED <<events, uuidCount, clock>>
    /\ UNCHANGED <<storeVars, inflight, rendered, inner, handler, request, ids, context, result, via, collector, added, data>>

\* Validators.validate_user_data_bulk(d)
ValidateUserDataBulk ==
    /\ Serving
    /\ \E d \in {[email |-> e, username |-> n, password |-> w, full_name |-> f] :
               e \in {None, "not-an-email", " Ann@Example.com "},
               n \in {None, "ab", "Ann_1"},
               w \in {None, "short", "long-enough"},
               f \in {None, "", "A", "Ann Lee", IntValue}} :
        LET r == validate_user_data_bulk(d, uuidCount, clock)
        IN /\ data' = d
           /\ events' = events \o r.logs
           /\ uuidCount' = uuidCount + r.uuids
           /\ clock' = clock + r.clocks
           /\ IF r.raised
              THEN Throw(r.exc, "validate_user_data_bulk") /\ response' = response
              ELSE Return("validate_user_data_bulk")
    /\ UNCHANGED <<storeVars, inflight, rendered, inner, handler, request, ids, context, result, via, collector, added>>

\* what the business logic run inside a BaseService helper does: it returns a value, or
\* raises an error of a domain variant (built when u uuids and t clock readings were
\* drawn), or raises something else
BusinessOutcomes(values, u, t) ==
    {Returned(v) : v \in values}
    \cup {Raised(e) : e \in {d \in DomainErrors(u, t) : d.cls # "BaseError"}
                             \cup {RawException("RuntimeError", "boom")}}

\* a BaseService helper has run: what the business logic raised is kept in inner, and
\* what leaves the helper is raised to, or returned to, the caller
ServiceCall(outcome, r, from) ==
    /\ inner' = outcome.exc
    /\ events' = events
                  \o (IF IsInstance(outcome.exc, {"BaseError"}) THEN <<_auto_log(outcome.exc)>> ELSE <<>>)
                  \o r.logs
    /\ uuidCount' = uuidCount + (IF IsInstance(outcome.exc, {"BaseError"}) THEN 2 ELSE 0) + r.uuids
    /\ clock' = clock + (IF IsInstance(outcome.exc, {"BaseError"}) THEN 1 ELSE 0) + r.clocks
    /\ IF r.raised THEN Throw(r.exc, from) /\ response' = response ELSE Return(from)
    /\ UNCHANGED <<db, callers, returned, inflight, rendered, handler, request, ids, context, result, via,
                   collector, added, data>>

\* a service method runs its operation through execute_operation_within_transaction;
\* the commit and the rollbacks work or fail
ExecuteOperationWithinTransaction ==
    /\ Serving
    /\ \E outcome \in BusinessOutcomes({"result"}, uuidCount, clock) :
       \E commit_failure \in {NoExc, RawException("OperationalError", "(psycopg2.OperationalError) connection refused")} :
       \E rollback_failure \in {NoExc, RawException("InvalidRequestError", "Can't reconnect until invalid transaction is rolled back")} :
        LET r == execute_operation_within_transaction(
                     outcome, commit_failure, rollback_failure,
                     uuidCount + (IF IsInstance(outcome.exc, {"BaseError"}) THEN 2 ELSE 0),
                     clock + (IF IsInstance(outcome.exc, {"BaseError"}) THEN 1 ELSE 0))
        IN /\ ServiceCall(outcome, r, "execute_operation_within_transaction")
           /\ session' = [operation |-> outcome, commit_failure |-> commit_failure,
                          rollback_failure |-> rollback_failure, calls |-> r.calls,
                          left |-> [raised |-> r.raised, value |-> r.value, exc |-> r.exc]]

\* a service method looks a resource up through get_resource_or_raise_not_found
GetResourceOrRaiseNotFound ==
    /\ Serving
    /\ \E outcome \in BusinessOutcomes({"resource", None}, uuidCount, clock) :
        ServiceCall(outcome,
                    get_resource_or_raise_not_found(
                        "42", outcome, "Task",
                        uuidCount + (IF IsInstance(outcome.exc, {"BaseError"}) THEN 2 ELSE 0),
                        clock + (IF IsInstance(outcome.exc, {"BaseError"}) THEN 1 ELSE 0)),
                    "get_resource_or_raise_not_found")
    /\ session' = session

\* a service method checks for a duplicate through
\* check_resource_not_exist_or_raise_duplicate
CheckResourceNotExistOrRaiseDuplicate ==
    /\ Serving
    /\ \E outcome \in BusinessOutcomes({"True", "False"}, uuidCount, clock) :
        ServiceCall(outcome,
                    check_resource_not_exist_or_raise_duplicate(
                        outcome, "Tag", "name", "urgent",
                        uuidCount + (IF IsInstance(outcome.exc, {"BaseError"}) THEN 2 ELSE 0),
                        clock + (IF IsInstance(outcome.exc, {"BaseError"}) THEN 1 ELSE 0)),
                    "check_resource_not_exist_or_raise_duplicate")
    /\ session' = session

\* code that holds the domain error a dispatcher has answered calls its to_schema()
\* again (as_dict, as_response): the call reads the attributes and assigns none
ToSchemaCall ==
    /\ pc = "responded" /\ via \in {"EnterpriseErrorHandler", "ErrorMiddleware"}
    /\ IsInstance(exc, {"BaseError"})
    /\ Len(rendered) < MaxRenders
    /\ rendered' = Append(rendered, [of |-> exc, raised |-> ToSchemaRaises(exc),
                                     schema |-> ToSchema(exc)])
    /\ UNCHANGED <<storeVars, inflight, inner, handler, request, pc, exc, ids, context, result, response, events, via,
                   origin, collector, added, data, uuidCount, clock>>

\* ErrorMiddleware.dispatch, the except branch: _log_error_context fails and its
\* exception leaves the middleware, or _handle_error renders the response, or a schema
\* validator raises and the exception leaves the middleware
ErrorMiddlewareHandleError ==
    /\ pc = "raised" /\ via = "ErrorMiddleware"
    /\ LET h == _handle_error(exc, request, ids.request_id, ids.correlation_id, handler.debug,
                              uuidCount, clock)
       IN \/ pc' = "log_failed" /\ UNCHANGED <<exc, events, uuidCount, clock, result, response>>
          \/ /\ exc' = h.exc
             /\ events' = events \o h.logs
             /\ uuidCount' = uuidCount + h.uuids
             /\ clock' = clock + h.clocks
             /\ IF h.raised
                THEN pc' = "propagated" /\ UNCHANGED <<result, response>>
                ELSE /\ pc' = "responded"
                     /\ result' = [NoResult EXCEPT !.schema = h.schema]
                     /\ response' = _create_json_response(handler, h.schema)
    /\ UNCHANGED <<storeVars, inflight, rendered, inner, handler, request, ids, context, via, origin, collector, added, data>>

\* EnterpriseErrorHandler.handle_error is called with the ids of its caller and builds
\* the context
BuildContext ==
    /\ pc = "raised" /\ via = None
    /\ \E caller \in {[request_id |-> "req-arg-1", correlation_id |-> "abc-123"],
                       [request_id |-> "req-arg-2", correlation_id |-> "corr-arg-1"]} :
        /\ ids' = caller
        /\ context' = from_request(request, caller.request_id, caller.correlation_id, clock)
    /\ clock' = clock + 1
    /\ via' = "EnterpriseErrorHandler"
    /\ pc' = "context_built"
    /\ UNCHANGED <<storeVars, inflight, rendered, inner, handler, request, exc, result, response, events, origin, collector, added,
                   data, uuidCount>>

\* handle_error: _find_processor, then processor.process; a raise leaves handle_error
Process ==
    /\ pc = "context_built"
    /\ LET processor == _find_processor(handler.processors, exc)
       IN IF processor = None
          THEN pc' = "propagated" /\ UNCHANGED <<exc, result, uuidCount>>
          ELSE \E o \in process(processor, exc, context, uuidCount) :
                /\ exc' = o.exc
                /\ uuidCount' = uuidCount + o.uuids
                /\ IF o.raised
                   THEN pc' = "propagated" /\ UNCHANGED result
                   ELSE /\ pc' = "processed"
                        /\ result' = [schema |-> o.schema, severity |-> o.severity,
                                      should_alert |-> o.should_alert,
                                      metrics_tags |-> o.metrics_tags]
    /\ UNCHANGED <<storeVars, inflight, rendered, inner, handler, request, ids, context, response, events, via, origin, collector,
                   added, data, clock>>

\* handle_error: logger_service.log_error; nothing catches what the logger raises, so
\* a failed log write leaves handle_error
Log ==
    /\ pc = "processed"
    /\ \/ events' = Append(events, log_error(result)) /\ pc' = "logged"
       \/ events' = events /\ pc' = "log_failed"
    /\ UNCHANGED <<storeVars, inflight, rendered, inner, handler, request, exc, ids, context, result, response, via, origin, collector,
                   added, data, uuidCount, clock>>

\* handle_error: _send_alert when the result asks for it; nothing catches what the
\* alert dispatch raises
Alert ==
    /\ pc = "logged" /\ result.should_alert
    /\ \/ /\ events' = Append(events, [call |-> "alert", logger |-> "_send_alert",
                                        level |-> None, exc_info |-> FALSE])
          /\ pc' = "alerted"
       \/ events' = events /\ pc' = "alert_failed"
    /\ UNCHANGED <<storeVars, inflight, rendered, inner, handler, request, exc, ids, context, result, response, via, origin, collector,
                   added, data, uuidCount, clock>>

\* handle_error: _create_response
CreateResponse ==
    /\ \/ pc = "logged" /\ ~result.should_alert
       \/ pc = "alerted"
    /\ response' = _create_response(handler, result.schema, context)
    /\ pc' = "responded"
    /\ UNCHANGED <<storeVars, inflight, rendered, inner, handler, request, exc, ids, context, result, events, via, origin, collector,
                   added, data, uuidCount, clock>>

\* the handler exception_handlers.py registers for RequestValidationError
ValidationExceptionHandler ==
    /\ pc = "raised" /\ via = None
    /\ IsInstance(exc, {"RequestValidationError"})
    /\ response' = validation_exception_handler(exc)
    /\ events' = Append(events, LogCall("exception_handlers", "warning", FALSE))
    /\ via' = "exception_handlers"
    /\ pc' = "responded"
    /\ UNCHANGED <<storeVars, inflight, rendered, inner, handler, request, exc, ids, context, result, origin, collector, added, data,
                   uuidCount, clock>>

\* the handler main.py registers for RequestValidationError
HandleValidationErrors ==
    /\ pc = "raised" /\ via = None
    /\ IsInstance(exc, {"RequestValidationError"})
    /\ response' = handle_validation_errors(exc, uuidCount, clock)
    /\ uuidCount' = uuidCount + 1
    /\ clock' = clock + 1
    /\ via' = "main"
    /\ pc' = "responded"
    /\ UNCHANGED <<storeVars, inflight, rendered, inner, handler, request, exc, ids, context, result, events, origin, collector, added,
                   data>>

\* the handler main.py registers for BaseError; a schema validator that raises inside
\* to_schema() leaves the handler
HandleCustomErrors ==
    /\ pc = "raised" /\ via = None
    /\ IsInstance(exc, {"BaseError"})
    /\ IF ToSchemaRaises(exc)
       THEN pc' = "propagated" /\ UNCHANGED response
       ELSE pc' = "responded" /\ response' = handle_custom_errors(exc, uuidCount)
    /\ uuidCount' = uuidCount + 1
    /\ via' = "main"
    /\ UNCHANGED <<storeVars, inflight, rendered, inner, handler, request, exc, ids, context, result, events, origin, collector, added,
                   data, clock>>

Next ==
    \/ Dispatch
    \/ RaiseDomainError
    \/ RaiseRequestValidationError
    \/ RaiseHTTPException
    \/ RaiseDatabaseError
    \/ RaiseUnexpected
    \/ CreateUserRoute
    \/ AuthenticateUserRoute
    \/ Login
    \/ AddError
    \/ AddValidationError
    \/ RaiseIfErrors
    \/ ValidateUserDataBulk
    \/ ExecuteOperationWithinTransaction
    \/ GetResourceOrRaiseNotFound
    \/ CheckResourceNotExistOrRaiseDuplicate
    \/ ToSchemaCall
    \/ ErrorMiddlewareHandleError
    \/ BuildContext
    \/ Process
    \/ Log
    \/ Alert
    \/ CreateResponse
    \/ ValidationExceptionHandler
    \/ HandleValidationErrors
    \/ HandleCustomErrors

Spec == Init /\ [][Next]_vars

\* ------------------------------------- concurrent handle_error invocations

\* a faulty handler: the context is kept on the shared handler object, so the invocation
\* that resumes finds the context the other invocation built
SwitchSharesContext ==
    /\ inflight' = [pc |-> pc, request |-> request, exc |-> exc, ids |-> ids,
                    context |-> context, result |-> result, response |-> response,
                    via |-> via, origin |-> origin]
    /\ pc' = inflight.pc
    /\ request' = inflight.request
    /\ exc' = inflight.exc
    /\ ids' = inflight.ids
    /\ context' = context
    /\ result' = inflight.result
    /\ response' = inflight.response
    /\ via' = inflight.via
    /\ origin' = inflight.origin
    /\ UNCHANGED <<storeVars, handler, events, collector, added, data, uuidCount, clock, rendered, inner>>

\* the invocation of handle_error that was running is suspended and the other one runs
\* on: request, exc, request_id, correlation_id, context, processor result and response
\* are arguments and locals of each invocation; the handler object, the logger, uuid4
\* and the clock are shared
Switch ==
    /\ inflight' = [pc |-> pc, request |-> request, exc |-> exc, ids |-> ids,
                    context |-> context, result |-> result, response |-> response,
                    via |-> via, origin |-> origin]
    /\ pc' = inflight.pc
    /\ request' = inflight.request
    /\ exc' = inflight.exc
    /\ ids' = inflight.ids
    /\ context' = inflight.context
    /\ result' = inflight.result
    /\ response' = inflight.response
    /\ via' = inflight.via
    /\ origin' = inflight.origin
    /\ UNCHANGED <<storeVars, handler, events, collector, added, data, uuidCount, clock, rendered, inner>>

\* one EnterpriseErrorHandler, built once, and two requests that fail
InitConcurrent ==
    /\ Init
    /\ handler = EnterpriseErrorHandler(FALSE, TRUE)
    /\ request.headers = {}

NextConcurrent ==
    \/ RaiseDatabaseError
    \/ RaiseUnexpected
    \/ BuildContext
    \/ Process
    \/ Log
    \/ Alert
    \/ CreateResponse
    \/ Switch

SpecConcurrent == InitConcurrent /\ [][NextConcurrent]_vars

\* ------------------------------------------- the users table in use

\* what a repository or service call on the table hands back, with the rows before it
Hand(op, out) ==
    [op |-> op, n |-> returned.n + 1, before |-> db.rows, raised |-> out.raised,
     exc |-> out.exc, value |-> out.value]

\* the logger.error of BaseRepository.transaction when the block failed
TransactionLog(failure) ==
    IF failure = NoExc THEN <<>> ELSE <<LogCall("repositories.base", "error", FALSE)>>

\* BaseRepository.create called with a dict
Create ==
    /\ returned.n < MaxOps
    /\ \E obj \in {[email |-> e, username |-> n] : e \in {"ann@x.io", "bob@x.io"}, n \in {"ann", "bob"}} :
        LET ins == Insert(db, obj)
        IN /\ db' = ins.table
           /\ returned' = Hand("create", create(ins.failure))
           /\ events' = events \o TransactionLog(ins.failure)
    /\ UNCHANGED <<dispatchVars, uuidCount, clock, session, callers>>

\* BaseRepository.update of an object the caller got from get, with a new email
Update ==
    /\ returned.n < MaxOps
    /\ \E id \in 1..db.next_id, email \in {"ann@x.io", "bob@x.io"} :
        LET db_obj == BaseRepository(db.rows, "get", [id |-> id])
            rows == (db.rows \ {db_obj[1]}) \cup {[db_obj[1] EXCEPT !.email = email]}
            failure == IF UniqueConstraints(rows) THEN NoExc
                       ELSE RawException("IntegrityError",
                                         "(psycopg2.errors.UniqueViolation) duplicate key value violates unique constraint")
        IN /\ db_obj # <<>>
           /\ db' = IF failure = NoExc THEN [db EXCEPT !.rows = rows] ELSE db
           /\ returned' = Hand("update", IF failure = NoExc THEN Returned("db_obj")
                                         ELSE Raised(transaction(failure)))
           /\ events' = events \o TransactionLog(failure)
    /\ UNCHANGED <<dispatchVars, uuidCount, clock, session, callers>>

\* BaseRepository.soft_delete: the row is looked up by id alone and stamped with now
SoftDelete ==
    /\ returned.n < MaxOps
    /\ \E id \in 1..db.next_id :
        LET obj == {r \in db.rows : r.id = id}
        IN /\ db' = [db EXCEPT !.rows = (@ \ obj)
                                          \cup {[r EXCEPT !.deleted_at = <<clock + 1>>] : r \in obj}]
           /\ clock' = IF obj = {} THEN clock ELSE clock + 1
           /\ returned' = Hand("soft_delete", Returned(IF obj = {} THEN None ELSE "db_obj"))
    /\ UNCHANGED <<dispatchVars, events, uuidCount, session, callers>>

\* BaseRepository.delete: the row is looked up by id alone and removed
Delete ==
    /\ returned.n < MaxOps
    /\ \E id \in 1..db.next_id :
        LET obj == {r \in db.rows : r.id = id}
        IN /\ db' = [db EXCEPT !.rows = @ \ obj]
           /\ returned' = Hand("delete", Returned(IF obj = {} THEN None ELSE "db_obj"))
    /\ UNCHANGED <<dispatchVars, events, uuidCount, clock, session, callers>>

\* BaseRepository.bulk_update on the rows: a dict is [id |-> <<>>] without 'id' or
\* [id |-> <<n>>] with it, and carries a new email; each UPDATE statement runs at once
bulk_update(rows, updates) ==
    LET statement[i \in 0..Len(updates)] ==
            IF i = 0 THEN [rows |-> rows, updated_count |-> 0, failure |-> NoExc]
            ELSE LET prev == statement[i - 1]
                     hit == {r \in prev.rows : <<r.id>> = updates[i].id}
                     next == (prev.rows \ hit)
                             \cup {[r EXCEPT !.email = updates[i].email] : r \in hit}
                 IN IF prev.failure # NoExc \/ updates[i].id = <<>> THEN prev
                    ELSE IF ~UniqueConstraints(next)
                    THEN [prev EXCEPT !.failure =
                             RawException("IntegrityError",
                                          "(psycopg2.errors.UniqueViolation) duplicate key value violates unique constraint")]
                    ELSE [rows |-> next, updated_count |-> prev.updated_count + Cardinality(hit),
                          failure |-> NoExc]
        end == statement[Len(updates)]
    IN IF end.failure = NoExc
       THEN Merge(Returned(ToString(end.updated_count)), [rows |-> end.rows, failure |-> NoExc])
       ELSE Merge(Raised(transaction(end.failure)), [rows |-> rows, failure |-> end.failure])

BulkUpdate ==
    /\ returned.n < MaxOps
    /\ \E k \in 0..MaxItems :
       \E updates \in [1..k -> {[id |-> i, email |-> e] :
                                   i \in {<<>>} \cup {<<j>> : j \in 1..db.next_id},
                                   e \in {"ann@x.io", "bob@x.io"}}] :
        LET r == bulk_update(db.rows, updates)
        IN /\ db' = [db EXCEPT !.rows = r.rows]
           /\ returned' = Hand("bulk_update", r)
           /\ events' = events \o TransactionLog(r.failure)
    /\ UNCHANGED <<dispatchVars, uuidCount, clock, session, callers>>

\* BaseService.bulk_validate_and_create on a batch
BulkValidateAndCreate ==
    /\ returned.n < MaxCalls
    /\ \E k \in 0..MaxItems :
       \E items_data \in [1..k -> {[email |-> "ann@x.io", username |-> "ann"], [email |-> "bob@x.io", username |-> "bob"],
                            [email |-> "", username |-> "eve"]}] :
       \E create_func \in {"BaseRepository.create", "add_and_flush"} :
       \E commit_failure \in {NoExc, RawException("OperationalError", "server closed the connection unexpectedly")} :
        LET r == bulk_validate_and_create(items_data, db, create_func, commit_failure, NoExc,
                                          uuidCount, clock)
        IN /\ db' = r.table
           /\ returned' = [Hand("bulk_validate_and_create", r) EXCEPT
                               !.op = "bulk_validate_and_create:" \o create_func]
           /\ session' = [operation |-> r.operation, commit_failure |-> commit_failure,
                          rollback_failure |-> NoExc, calls |-> r.calls,
                          left |-> [raised |-> r.raised, value |-> None, exc |-> r.exc]]
           /\ events' = events \o r.logs
           /\ uuidCount' = uuidCount + r.uuids
           /\ clock' = clock + r.clocks
    /\ UNCHANGED <<dispatchVars, callers>>

\* BaseService.validate_pagination_params with the default max_per_page of 100
ValidatePaginationParams ==
    /\ returned.n < MaxCalls
    /\ \E page, per_page \in {[type |-> "int", int |-> n, str |-> ""] : n \in {-1, 0, 1, 100, 101}}
                            \cup {[type |-> "str", int |-> 0, str |-> x] : x \in {"", "0", "7", "101", "abc", "-1"}} :
        LET r == validate_pagination_params(page, per_page, 100, uuidCount, clock)
        IN /\ returned' = [Hand("validate_pagination_params", r) EXCEPT
                               !.value = IF r.raised THEN <<>> ELSE r.value]
           /\ events' = events \o (IF r.raised THEN <<_auto_log(r.exc)>> ELSE <<>>)
           /\ uuidCount' = uuidCount + (IF r.raised THEN 2 ELSE 0)
           /\ clock' = clock + (IF r.raised THEN 1 ELSE 0)
    /\ UNCHANGED <<dispatchVars, db, session, callers>>

\* AuthService.create_user up to the answer of _check_user_uniqueness: the two exists
\* queries of caller c; a user found ends the call
CheckUserUniqueness(c) ==
    /\ callers[c].pc = "idle"
    /\ \E user_data \in {[email |-> e, username |-> n] : e \in {"ann@x.io", "bob@x.io"}, n \in {"ann", "bob"}} :
        LET exists_by_email == UserRepository(db.rows, "exists_by_email", user_data.email)
            exists_by_username == UserRepository(db.rows, "exists_by_username", user_data.username)
            unique == _check_user_uniqueness(user_data.email, user_data.username,
                                             exists_by_email, exists_by_username)
        IN callers' = [callers EXCEPT ![c] =
                          [pc |-> IF unique.raised THEN "done" ELSE "checked",
                           email |-> user_data.email, username |-> user_data.username,
                           outcome |-> IF ~unique.raised THEN Returned(None)
                                       ELSE create_user_route(user_data.email,
                                                              user_data.username,
                                                              exists_by_email,
                                                              exists_by_username, NoExc)]]
    /\ UNCHANGED <<dispatchVars, events, uuidCount, clock, db, session, returned>>

\* the rest of AuthService.create_user for caller c: user_repository.create, and what
\* the create_user route makes of its outcome
CreateUser(c) ==
    /\ callers[c].pc = "checked"
    /\ LET ins == Insert(db, callers[c])
       IN /\ db' = ins.table
          /\ callers' = [callers EXCEPT ![c].pc = "done",
                                        ![c].outcome =
                                            create_user_route(callers[c].email,
                                                              callers[c].username, FALSE, FALSE,
                                                              ins.failure)]
          /\ events' = events \o TransactionLog(ins.failure)
    /\ UNCHANGED <<dispatchVars, uuidCount, clock, session, returned>>

\* a client of the repository
NextRepository ==
    \/ Create
    \/ Update
    \/ SoftDelete
    \/ Delete
    \/ BulkUpdate

SpecRepository == InitConcurrent /\ [][NextRepository]_vars

\* two clients signing up on a table that other calls filled and soft-deleted from
NextSignup ==
    \/ Create
    \/ SoftDelete
    \/ \E c \in {1, 2} : CheckUserUniqueness(c)
    \/ \E c \in {1, 2} : CreateUser(c)

SpecSignup == InitConcurrent /\ [][NextSignup]_vars

\* a client of the service helpers
NextService ==
    \/ BulkValidateAndCreate
    \/ ValidatePaginationParams

SpecService == InitConcurrent /\ [][NextService]_vars

\* ------------------------------------------------------------ claims

\* handle_error has a result in hand
HasResult == via = "EnterpriseErrorHandler" /\ pc \in {"processed", "logged", "alerted", "responded"}

\* C1: the handler's processor list is always sorted ascending by priority with
\* FallbackErrorProcessor last; for the exception handle_error is working on, the
\* processor _find_processor picks accepts it and no accepting processor has a lower
\* priority number; a BaseError is picked up by CustomErrorProcessor; and the result
\* handle_error holds was produced by that processor.
C1_LowestPriorityMatchWins ==
    /\ \A i, j \in 1..Len(handler.processors) :
          i < j => priority(handler.processors[i]) <= priority(handler.processors[j])
    /\ handler.processors[Len(handler.processors)] = "FallbackErrorProcessor"
    /\ via = "EnterpriseErrorHandler" =>
          LET p == _find_processor(handler.processors, exc)
              matching == {q \in {handler.processors[i] : i \in 1..Len(handler.processors)} :
                              can_process(q, exc)}
              tag == CASE p = "CustomErrorProcessor" -> "custom"
                       [] p = "ValidationErrorProcessor" -> "validation"
                       [] p = "HttpErrorProcessor" -> "http"
                       [] p = "DatabaseErrorProcessor" -> "database"
                       [] p = "FallbackErrorProcessor" -> "unexpected"
          IN /\ p \in matching
             /\ \A q \in matching : priority(p) <= priority(q)
             /\ IsInstance(exc, {"BaseError"}) => p = "CustomErrorProcessor"
             /\ HasResult => <<"error_type", tag>> \in result.metrics_tags
    /\ HasResult /\ IsInstance(exc, {"BaseError"}) =>
          <<"error_type", "unexpected">> \notin result.metrics_tags

\* a domain error went through handle_error and CustomErrorProcessor produced the result
C1_Witness ==
    /\ HasResult
    /\ IsInstance(exc, {"BaseError"})
    /\ <<"error_type", "custom">> \in result.metrics_tags

\* an exception has been handed to one of the two dispatchers
Dispatched ==
    /\ via \in {"EnterpriseErrorHandler", "ErrorMiddleware"}
    /\ pc \notin {"normal", "returned"}

C3_HandleErrorNeverRaises == ~(via = "EnterpriseErrorHandler" /\ pc = "propagated")

\* C4: the status_code of every response schema a processor or a middleware branch
\* produces is the HTTP status the taxonomy binds to the code in its error field.
C4_StatusMatchesTaxonomy ==
    Dispatched /\ pc \in {"processed", "logged", "alerted", "responded"} =>
        \E n \in DOMAIN ErrorCode :
            /\ ErrorCode[n].code = result.schema.error
            /\ ErrorCode[n].status_code = result.schema.status_code

\* the fields of data whose validator raises, in the order validate_user_data_bulk
\* visits them
FailingFields(d) ==
    (IF validate_email(d.email, "email", 0, 0).raised THEN <<"email">> ELSE <<>>)
    \o (IF validate_username(d.username, "username", 0, 0).raised THEN <<"username">> ELSE <<>>)
    \o (IF validate_password(d.password, "password", 0, 0).raised THEN <<"password">> ELSE <<>>)
    \o (IF /\ d.full_name = IntValue \/ Truthy(d.full_name)
           /\ validate_string_length(d.full_name, "full_name", 2, 100, 0, 0).raised
        THEN <<"full_name">> ELSE <<>>)

\* C5: the collector holds exactly the failures handed to it, in call order;
\* raise_if_errors returns when there are none and otherwise raises one ValidationError
\* whose validation_errors are exactly those failures in that order, and so are the
\* validation_errors of the response rendered for it; validate_user_data_bulk returns
\* when no field fails and otherwise raises one ValidationError with one entry per
\* failing field among email, username, password, full_name, in that order.
C5_CollectorReportsEveryFailure ==
    /\ collector = added
    /\ origin = "collector" /\ pc # "normal" =>
        /\ pc = "returned" <=> added = <<>>
        /\ pc # "returned" =>
            /\ exc.cls = "ValidationError"
            /\ exc.validation_errors = added
        /\ pc # "propagated"
        /\ pc = "responded" =>
            response.content.validation_errors = [i \in 1..Len(added) |-> DetailDump(added[i])]
    /\ origin = "validate_user_data_bulk" =>
        /\ pc = "returned" <=> FailingFields(data) = <<>>
        /\ pc # "returned" =>
            /\ exc.cls = "ValidationError"
            /\ [i \in 1..Len(exc.validation_errors) |-> exc.validation_errors[i].field]
                  = FailingFields(data)
        /\ pc # "propagated"
        /\ pc = "responded" =>
            [i \in 1..Len(response.content.validation_errors) |->
                response.content.validation_errors[i].field] = FailingFields(data)

\* three failures were collected, raised as one error and rendered
C5_Witness ==
    /\ origin = "collector" /\ pc = "responded"
    /\ Len(added) = 3
    /\ added[1].field # added[2].field
    /\ Len(response.content.validation_errors) = 3

\* C6: the response to a RequestValidationError carrying n >= 1 errors has a
\* validation_errors list of exactly n entries, the i-th naming the field of the i-th
\* error, whichever handler answered.
C6_EveryFieldReported ==
    pc = "responded" /\ IsInstance(exc, {"RequestValidationError"}) /\ Len(exc.errors) >= 1 =>
        /\ "validation_errors" \in DOMAIN response.content
        /\ Len(response.content.validation_errors) = Len(exc.errors)
        /\ \A i \in 1..Len(exc.errors) :
              response.content.validation_errors[i].field
                  \in {Join(".", exc.errors[i].loc), _extract_field_name(exc.errors[i].loc)}

C8_NoDetailsOutsideDebug ==
    pc = "responded" /\ via \in {"EnterpriseErrorHandler", "ErrorMiddleware"} /\ ~handler.debug =>
        "details" \notin DOMAIN response.content

\* C9: the message of the response to a failed create_user contains none of the
\* driver's raw error texts.
C9_DriverTextNotInMessage ==
    pc = "responded" /\ origin = "create_user" =>
        \A f \in DriverErrors : ~Contains(response.content.message, f.text)

\* C10: a wrong password for an existing user reaches the client as AUTH001 with status
\* 401, field password and a suggestion that mentions the password.
C10_WrongPasswordResponse ==
    pc = "responded" /\ origin \in {"authenticate_user:wrong_password", "login:wrong_password"} =>
        /\ response.status_code = 401
        /\ response.content.error = "AUTH001"
        /\ "field" \in DOMAIN response.content
        /\ response.content.field = "password"
        /\ "suggestions" \in DOMAIN response.content
        /\ \E i \in 1..Len(response.content.suggestions[1]) :
              Contains(Lower(response.content.suggestions[1][i]), "password")

\* C11: a driver failure that reaches a dispatcher, raw or wrapped by the repository
\* write of create_user, is answered RES002 with status 409 when it is an IntegrityError
\* whose text contains duplicate or unique, and SYS001 with status 500 otherwise.
C11_UniqueViolationIsDuplicate ==
    pc = "responded" /\ Dispatched =>
        /\ origin = "driver" =>
              IF /\ IsInstance(exc, {"IntegrityError"})
                 /\ Contains(Lower(exc.text), "duplicate") \/ Contains(Lower(exc.text), "unique")
              THEN response.content.error = "RES002" /\ response.status_code = 409
              ELSE response.content.error = "SYS001" /\ response.status_code = 500
        /\ origin = "create_user" /\ (\E f \in DriverErrors : Contains(exc.detail, f.text)) =>
              \/ response.content.error = "RES002" /\ response.status_code = 409
              \/ response.content.error = "SYS001" /\ response.status_code = 500

\* C12: the severity of the result handle_error holds is the one the table fixes for
\* the processor that produced it: CustomErrorProcessor low to info, medium to warning,
\* high to error, critical to critical; ValidationErrorProcessor info;
\* HttpErrorProcessor warning below status 500 and error from 500 on;
\* DatabaseErrorProcessor error; FallbackErrorProcessor critical.
C12_SeverityByProcessorTable ==
    HasResult =>
        LET p == _find_processor(handler.processors, exc)
        IN result.severity =
              CASE p = "CustomErrorProcessor" ->
                      (CASE ErrorCode[exc.error_code].severity = "low" -> "info"
                         [] ErrorCode[exc.error_code].severity = "medium" -> "warning"
                         [] ErrorCode[exc.error_code].severity = "high" -> "error"
                         [] ErrorCode[exc.error_code].severity = "critical" -> "critical")
                [] p = "ValidationErrorProcessor" -> "info"
                [] p = "HttpErrorProcessor" -> IF exc.status_code < 500 THEN "warning" ELSE "error"
                [] p = "DatabaseErrorProcessor" -> "error"
                [] p = "FallbackErrorProcessor" -> "critical"

\* a domain error of a low severity code was processed to an info result
C12_Witness ==
    /\ HasResult
    /\ IsInstance(exc, {"BaseError"}) /\ ErrorCode[exc.error_code].severity = LOW
    /\ result.severity = INFO

\* C13: the result handle_error holds asks for an alert whenever its severity is error
\* or critical, or the code of the domain error it was made from has severity high or
\* critical, or its status is 500 or above, or DatabaseErrorProcessor or
\* FallbackErrorProcessor produced it.
C13_AlertOnSevereResults ==
    HasResult =>
        LET p == _find_processor(handler.processors, exc)
        IN (\/ result.severity \in {"error", "critical"}
            \/ p = "CustomErrorProcessor" /\ ErrorCode[exc.error_code].severity \in {"high", "critical"}
            \/ result.schema.status_code >= 500
            \/ p \in {"DatabaseErrorProcessor", "FallbackErrorProcessor"})
           => result.should_alert

\* an HTTPException of status 503 was processed and its result asks for an alert
C13_Witness ==
    /\ HasResult
    /\ IsInstance(exc, {"HTTPException"}) /\ exc.status_code = 503
    /\ result.should_alert

\* C14: handling an exception never ends on a failed log write or a failed alert
\* dispatch; the response is returned all the same.
C14_LogFailureStillResponds ==
    ~(via \in {"EnterpriseErrorHandler", "ErrorMiddleware"} /\ pc \in {"log_failed", "alert_failed"})

\* C15: the suggestions ValidationErrorProcessor generates for a RequestValidationError
\* contain no duplicates, number at most 3 and include the generic suggestion to check
\* the API documentation; the suggestions of every rendered response number at most 10.
C15_SuggestionsBounded ==
    /\ HasResult /\ IsInstance(exc, {"RequestValidationError"}) =>
          LET sug == result.schema.suggestions[1]
          IN /\ \A i, j \in 1..Len(sug) : i # j => sug[i] # sug[j]
             /\ Len(sug) <= 3
             /\ \E i \in 1..Len(sug) : sug[i] = "Check API documentation for field requirements"
    /\ pc = "responded" /\ "suggestions" \in DOMAIN response.content =>
          Len(response.content.suggestions[1]) <= 10

C17_EmptyResourceFieldsRejected ==
    ~(exc.cls = "ResourceNotFoundError" /\ (exc.resource_type = "" \/ exc.resource_id = ""))

\* C19: a domain error variant raised by the business logic inside a BaseService helper
\* leaves the helper: the call does not return, and what the caller gets is of the same
\* class and has the same error code.
C19_HelpersPropagateDomainErrors ==
    /\ origin \in {"execute_operation_within_transaction", "get_resource_or_raise_not_found",
                   "check_resource_not_exist_or_raise_duplicate"}
    /\ inner.cls \in DomainClasses \ {"BaseError"}
    => /\ pc # "returned"
       /\ exc.cls = inner.cls
       /\ exc.error_code = inner.error_code

C20_TaxonomyWellFormed ==
    /\ pc = "normal" =>
          /\ \A m, n \in DOMAIN ErrorCode : m # n => ErrorCode[m].code # ErrorCode[n].code
          /\ \A n \in DOMAIN ErrorCode :
                /\ \E prefix \in {"AUTH", "VAL", "RES", "BIZ", "SYS"} :
                      /\ Len(ErrorCode[n].code) > Len(prefix)
                      /\ SubSeq(ErrorCode[n].code, 1, Len(prefix)) = prefix
                /\ ErrorCode[n].status_code \in 100..599
                /\ ErrorCode[n].severity \in {"low", "medium", "high", "critical"}
          /\ \A pair \in {<<"VAL001", 422>>, <<"AUTH001", 401>>, <<"AUTH003", 403>>,
                            <<"AUTH004", 403>>, <<"RES001", 404>>, <<"RES002", 409>>,
                            <<"BIZ004", 429>>, <<"SYS001", 500>>, <<"SYS003", 500>>,
                            <<"SYS002", 502>>, <<"SYS004", 503>>, <<"SYS005", 504>>} :
                /\ \E n \in DOMAIN ErrorCode : ErrorCode[n].code = pair[1]
                /\ \A n \in DOMAIN ErrorCode :
                      ErrorCode[n].code = pair[1] => ErrorCode[n].status_code = pair[2]
    /\ pc = "responded" /\ Dispatched /\ IsInstance(exc, {"BaseError"}) =>
          /\ response.content.error = ErrorCode[exc.error_code].code
          /\ response.status_code = ErrorCode[exc.error_code].status_code
          /\ response.content.status_code = ErrorCode[exc.error_code].status_code

\* a QUOTA_EXCEEDED domain error went out as BIZ004 with status 429
C20_Witness ==
    /\ pc = "responded" /\ Dispatched
    /\ IsInstance(exc, {"BaseError"}) /\ exc.error_code = "QUOTA_EXCEEDED"
    /\ response.content.error = "BIZ004" /\ response.status_code = 429

\* C21: in every response a handler renders for a domain error (CustomErrorProcessor
\* under EnterpriseErrorHandler, ErrorMiddleware, the BaseError handler of main.py) the
\* request_id of the body is the X-Request-ID response header.
C21_BodyRequestIdIsHeader ==
    (/\ pc = "responded" /\ via \in {"EnterpriseErrorHandler", "ErrorMiddleware", "main"}
     /\ IsInstance(exc, {"BaseError"}))
    => /\ "request_id" \in DOMAIN response.content
       /\ <<"X-Request-ID", response.content.request_id>> \in response.headers

\* C22: in a run of EnterpriseErrorHandler.handle_error the context is built before the
\* processor runs, the log call happens exactly once and only once a result exists, at
\* the level of the result severity; the alert hook has been invoked exactly when the
\* result asks for it and the run has passed the alert step, after the log call; and no
\* response exists before the log call and the alert, if any, are done.
C22_StepsInOrder ==
    via = "EnterpriseErrorHandler" =>
        LET logs == {i \in 1..Len(events) : events[i].logger = "error_processor"}
            alerts == {i \in 1..Len(events) : events[i].call = "alert"}
            level == IF result.severity \in {"critical", "error", "warning"}
                     THEN result.severity ELSE "info"
        IN /\ pc \in {"context_built", "processed", "log_failed", "propagated", "logged",
                       "alert_failed", "alerted", "responded"}
           /\ context.request_id = ids.request_id /\ context.path = request.path
           /\ pc \in {"context_built", "propagated"} => result = NoResult
           /\ pc \in {"context_built", "processed", "log_failed", "propagated"} => logs = {}
           /\ pc \in {"logged", "alert_failed", "alerted", "responded"} =>
                 /\ Cardinality(logs) = 1
                 /\ result # NoResult
                 /\ \A i \in logs : events[i].call = "log" /\ events[i].level = level
           /\ Cardinality(alerts) =
                 (IF pc = "alerted" \/ (pc = "responded" /\ result.should_alert) THEN 1 ELSE 0)
           /\ pc = "alerted" => result.should_alert
           /\ \A i \in logs : \A j \in alerts : i < j
           /\ pc # "responded" => response.status_code = 0
           /\ pc = "responded" => response.status_code = result.schema.status_code

\* a run with a critical result has logged, then alerted, then answered
C22_Witness ==
    /\ via = "EnterpriseErrorHandler" /\ pc = "responded"
    /\ result.should_alert
    /\ \E i, j \in 1..Len(events) :
          /\ i < j
          /\ events[i].logger = "error_processor" /\ events[i].level = "critical"
          /\ events[j].call = "alert"

\* C23: the message ValidationErrorProcessor reports for a raw failure is the message of
\* the type map when the failure type is in it; otherwise the message of the first rule
\* the raw message matches, in the order "not a valid email", "at least", "at most",
\* "field required", "not a valid"; otherwise "<Field> has an invalid value".
C23_HumanizedByPrecedence ==
    (/\ via = "EnterpriseErrorHandler" /\ pc \in {"processed", "logged", "alerted", "responded"}
     /\ IsInstance(exc, {"RequestValidationError"}))
    => \A i \in 1..Len(exc.errors) :
          LET error == exc.errors[i]
              detail == result.schema.validation_errors[i]
              F == Title(detail.field)
              typed == ("value_error.email" :> "Please provide a valid email address")
                       @@ ("string_type" :> F \o " must be text")
                       @@ ("int_type" :> F \o " must be a whole number")
                       @@ ("float_type" :> F \o " must be a number")
                       @@ ("bool_type" :> F \o " must be true or false")
                       @@ ("missing" :> F \o " is required")
                       @@ ("string_too_short" :> F \o " is too short")
                       @@ ("string_too_long" :> F \o " is too long")
          IN detail.message =
                IF error.type \in DOMAIN typed THEN typed[error.type]
                ELSE IF Contains(error.msg, "not a valid email")
                THEN "Please provide a valid email address"
                ELSE IF Contains(error.msg, "at least") THEN F \o " is too short"
                ELSE IF Contains(error.msg, "at most") THEN F \o " is too long"
                ELSE IF Contains(error.msg, "field required") THEN F \o " is required"
                ELSE IF Contains(error.msg, "not a valid") THEN F \o " format is invalid"
                ELSE F \o " has an invalid value"

\* C24: the field name reported for a raw failure, by ValidationErrorProcessor and by the
\* RequestValidationError handler of main.py, is the location path without its wrapper
\* segments ("body", "__root__"), the other segments kept in order and joined by dots,
\* and it is "root" exactly when no segment is left.
C24_FieldNameIsCleanPath ==
    (/\ pc = "responded" /\ via \in {"EnterpriseErrorHandler", "main"}
     /\ IsInstance(exc, {"RequestValidationError"}))
    => \A i \in 1..Len(exc.errors) :
          LET loc == exc.errors[i].loc
              kept == SelectSeq(loc, LAMBDA seg : seg \notin {"body", "__root__"})
              field == response.content.validation_errors[i].field
          IN /\ kept = <<>> => field = "root"
             /\ kept # <<>> => field = Join(".", kept)

\* C27: after a call of execute_operation_within_transaction the commit was attempted at
\* most once and only when the operation returned; when the operation or the commit
\* raised, a rollback was invoked, no commit follows a rollback, and the call raised;
\* and what the call raised is the original error or carries its text, whether or not
\* the rollback itself failed.
C27_CommitThenRollbackOnFailure ==
    origin = "execute_operation_within_transaction" =>
        LET commits == {i \in 1..Len(session.calls) : session.calls[i] = "commit"}
            rollbacks == {i \in 1..Len(session.calls) : session.calls[i] = "rollback"}
            original == IF session.operation.raised THEN session.operation.exc
                        ELSE session.commit_failure
        IN /\ Cardinality(commits) <= 1
           /\ commits # {} => ~session.operation.raised
           /\ (session.operation.raised \/ session.commit_failure # NoExc) =>
                 /\ rollbacks # {}
                 /\ \A i \in commits : \A j \in rollbacks : i < j
                 /\ session.left.raised
                 /\ \/ session.left.exc = original
                    \/ <<"error", original.text>> \in session.left.exc.details
           /\ (~session.operation.raised /\ session.commit_failure = NoExc) =>
                 /\ rollbacks = {}
                 /\ session.left = session.operation

\* C28: the exception one dispatcher has answered gets, from the other dispatcher, a
\* response with the same error code and the same HTTP status.
C28_DispatchersAgree ==
    /\ (pc = "responded" /\ via = "EnterpriseErrorHandler") =>
          LET h == _handle_error(exc, request, ids.request_id, ids.correlation_id,
                                 handler.debug, uuidCount, clock)
          IN /\ ~h.raised
             /\ h.schema.error = result.schema.error
             /\ h.schema.status_code = response.status_code
    /\ (pc = "responded" /\ via = "ErrorMiddleware") =>
          \A o \in process(_find_processor(handler.processors, exc), exc,
                            from_request(request, ids.request_id, ids.correlation_id, clock),
                            uuidCount) :
             /\ ~o.raised
             /\ o.schema.error = result.schema.error
             /\ o.schema.status_code = response.status_code

\* C25: a bulk_validate_and_create call that failed leaves the table as it found it,
\* whichever create_func it ran; a call that did not fail has persisted every item.
C25_BatchAllOrNothing ==
    Contains(returned.op, "bulk_validate_and_create") =>
       /\ returned.raised => db.rows = returned.before
       /\ ~returned.raised =>
             \A i \in 1..Len(returned.value) : \E r \in db.rows : r.id = returned.value[i]

\* C26: no two users share an email or a username, and a create_user call that has
\* failed was answered with HTTP 409.
C26_LoserGetsConflict ==
    /\ \A r, q \in db.rows : r # q => (r.email # q.email /\ r.username # q.username)
    /\ \A c \in {1, 2} :
          (callers[c].pc = "done" /\ callers[c].outcome.raised) =>
             callers[c].outcome.exc.status_code = 409

\* C29: what validate_pagination_params returns is a pair of integers with page >= 1
\* and 1 <= per_page <= max_per_page.
C29_PageAndPerPageInBounds ==
    (returned.op = "validate_pagination_params" /\ ~returned.raised) =>
       /\ returned.value[1] >= 1
       /\ returned.value[2] >= 1
       /\ returned.value[2] <= 100

\* C30: a row whose deleted_at is set is returned by no reading method, is absent for
\* exists and exists_by_field, is not counted, and is left as it was by update and
\* bulk_update.
C30_SoftDeletedUntouched ==
    LET gone == {r \in db.rows : r.deleted_at # <<>>}
        Among(xs, r) == \E i \in 1..Len(xs) : xs[i] = r
        paging == [filters |-> {}, skip |-> 0, limit |-> 100]
    IN /\ \A r \in gone :
             /\ BaseRepository(db.rows, "get", [id |-> r.id]) = <<>>
             /\ ~Among(BaseRepository(db.rows, "get_multi", paging), r)
             /\ ~Among(BaseRepository(db.rows, "get_all", <<>>), r)
             /\ BaseRepository(db.rows, "get_by_field", [field |-> "id", value |-> r.id]) = <<>>
             /\ ~Among(BaseRepository(db.rows, "get_multiple_by_ids",
                                      [ids |-> {q.id : q \in db.rows}]), r)
             /\ ~Among(BaseRepository(db.rows, "get_with_pagination", paging)[1], r)
             /\ ~BaseRepository(db.rows, "exists", [id |-> r.id])
             /\ ~BaseRepository(db.rows, "exists_by_field", [field |-> "id", value |-> r.id])
       /\ BaseRepository(db.rows, "count", [filters |-> {}]) = Cardinality(db.rows \ gone)
       /\ BaseRepository(db.rows, "get_with_pagination", paging)[2] = Cardinality(db.rows \ gone)
       /\ returned.op \in {"update", "bulk_update"} =>
             \A r \in returned.before : r.deleted_at # <<>> => r \in db.rows

====
